---------------------------- MODULE Spec2Model ----------------------------
(***************************************************************************)
(* A model of the effectpy core: Queue (queue.py), the resource bracket    *)
(* and the parallel combinators (core.py), Layer (layer.py) and Scope      *)
(* (scope.py).                                                             *)
(*                                                                         *)
(* Execution model.  The library runs on one asyncio event loop: a task    *)
(* runs without interruption from one suspension point (an await that      *)
(* really blocks) to the next, so one action of this model is one such run *)
(* of one task.  The order in which ready tasks run is left open.          *)
(* task.cancel() makes the task see CancelledError at the suspension point *)
(* it is parked on the next time it runs.                                  *)
(*                                                                         *)
(* Every component has its own specification; the variables of the other   *)
(* components stay at their idle values there.                             *)
(***************************************************************************)
EXTENDS Integers, Sequences, FiniteSets, TLC

(***************************************************************************)
(* Bounds of the model.                                                    *)
(***************************************************************************)
NumProducers == 2
MaxSends == 4
NumConsumers == 2
MaxCap == 2
MaxSteps == 1
NumItems == 2
MaxFins == 3
MaxRecurs == 2
MaxFails == 3
NumClosers == 2
NumCallers == 2
MaxNotes == 2
NumSubs == 3
NumPubs == 2
MaxWorkers == 2
StreamLen == 2

Producers == 1..NumProducers
Consumers == 1..NumConsumers

Min(a, b) == IF a <= b THEN a ELSE b

VARIABLES
  \* ---- Queue (queue.py) ----
  qMaxsize,     \* Queue._maxsize
  qBuf,         \* Queue._buf; the i-th item sent by producer p is <<p, i>>
  qClosed,      \* Queue._closed
  pPc,          \* position of each producer task in Queue.send
  pSent,        \* number of sends each producer has completed
  cPc,          \* position of each consumer task in Queue.receive
  qGot,         \* per producer, its items returned by receive, in the order returned
  qPending,     \* the items that were in Queue._buf when close() ran, less one per receive since
  qSnapMany,    \* whether Queue._buf held two items or more when close() ran
  \* ---- acquire_release (core.py) ----
  arPc,         \* where the task evaluating acquire_release(acq, rel, use) is parked
  arLeft,       \* suspension points the effect being run may still go through
  arCancel,     \* a cancel() of the task that it has not seen yet
  arAcqRuns,    \* how many times acq was started
  arRelRuns,    \* how many times rel was started
  arAcqExit,    \* how acq ended
  arUseExit,    \* how use ended
  arRelExit,    \* how rel ended
  arExit,       \* how the whole effect ended
  arIntr,       \* the effects in which the task has seen CancelledError
  \* ---- zip_par, race, for_each_par, merge_all (core.py) ----
  parComb,      \* the combinator the parent task evaluates
  parN,         \* the number of child effects given to it
  parPar,       \* the parallelism argument (0: None)
  parOrd,       \* the preserve_order argument of merge_all
  parPc,        \* where the parent task is parked
  parCancel,    \* a cancel() of the parent task that it has not seen yet
  parIntr,      \* whether another task has called cancel() on the parent task
  parOn,        \* the child the parent is parked on (await t), 0 if none
  parTasks,     \* the tasks the parent waits for (asyncio.wait, asyncio.gather)
  parDrain,     \* the cancelled children the parent has still to drain
  parExc,       \* the outcome the parent ends with once the drain is over
  parOuter,     \* the state of the future of asyncio.gather or asyncio.wait
  parIter,      \* how many effects merge_all has taken from its iterator
  parRes,       \* the results collected so far
  parExit,      \* how the combinator ended
  kSt,          \* the state of each child
  kExit,        \* how each child ended
  kCancelAt,    \* kWork of the child when cancel() was called on it, -1 if never
  kWork,        \* how many times the effect of the child has run
  semValue,     \* for_each_par: Semaphore._value
  semWaiters,   \* for_each_par: Semaphore._waiters
  \* ---- Layer (layer.py) ----
  lyOp,         \* the composition: "+" or "|"
  lyT,          \* the service types of the left and the right from_resource layer
  lyScoped,     \* whether the layer is built with build_scoped
  lyPhase,      \* where the caller of the build and of the teardown is
  lySt,         \* the acquire of each occurrence: none, mk (parked in mk), ok, err
  lyRel,        \* the release of each occurrence: none, close (parked in close), ok, err
  lyInst,       \* the instance each occurrence put into its Context
  lyMemo,       \* the memo dict: the instance stored for each type
  lyCtx,        \* the Context returned by the build
  lyMk,         \* how many times mk was called, per type
  lyClose,      \* how many times close was called, per instance
  lyErr,        \* the exception raised to the caller
  \* ---- Scope (scope.py) ----
  scFinalizers, \* Scope._finalizers
  scClosed,     \* Scope._closed
  scNext,       \* the name of the next finalizer given to add_finalizer
  scAtClose,    \* Scope._finalizers as it was when close() set _closed
  scRuns,       \* how many times each finalizer was called
  scOut,        \* how each finalizer ended: none, ok, err, base
  scLog,        \* the calls and the ends of the finalizers, in order
  scLate,       \* the finalizers running inside add_finalizer on the closed scope
  clPc,         \* where each task calling close() is: idle, drain, closed, noop, raised
  clFin,        \* the finalizer each task calling close() is awaiting, 0 if none
  \* ---- catch_all, fold, retry (core.py), Schedule (schedule.py) ----
  rcComb,       \* the combinator: catch_all, fold or retry
  rcN,          \* the n of Schedule.recurs(n): Schedule._initial
  schedState,   \* Schedule._state
  rcActive,     \* the tasks that evaluate the effect value
  rcK,          \* per task, how many evaluations of e end with a Fail before rcLast
  rcLast,       \* per task, how the evaluation of e after the failing ones ends
  rcPc,         \* per task, where it is: idle, run (in e), handler, done
  rcAttempts,   \* per task, how many times e was evaluated
  rcSteps,      \* per task, how many times it called Schedule.step
  rcHandler,    \* per task, how many times f (catch_all) or on_error (fold) was called
  rcFails,      \* per task, how many evaluations of e ended with a Fail
  rcInner,      \* per task, how the last evaluation of e ended
  rcExit,       \* per task, how the whole effect ended
  \* ---- Fiber, Runtime.fork (runtime.py) ----
  fbTask,       \* Fiber._task: none (not forked), new, run (parked in the effect), done
  fbExit,       \* how the task of the fiber ended
  fbCancel,     \* a cancel() of the fiber's task that it has not seen yet
  fbStatus,     \* Fiber._status
  fbWaiters,    \* the callers parked on the fiber's task, in the order they parked
  fbCallbacks,  \* the callbacks of the ended task the loop has still to call
  svTasks,      \* the tasks made for the supervisor's methods that have not run yet
  svEvents,     \* the supervisor's methods that were called, in order
  cuOp,         \* per caller, the method it calls: await_, join or interrupt
  cuPc,         \* per caller, where it is: idle, parked, woken, done
  cuRes,        \* per caller, what await_ returned or join returned or raised
  cuMustCancel, \* per caller, Task._must_cancel
  fbNotes,      \* the notes of the annotate calls around the forked effect, innermost first
  cuExit,       \* per caller, the Exit that await_ returned
  \* ---- Effect.ensuring (core.py) ----
  enPc,         \* where the task is: idle, new, e (parked in e), fin (in fin), done
  enCancel,     \* a cancel() of the task that it has not seen yet
  enIntr,       \* whether another task has called cancel() on the task
  enWork,       \* how many times e has run
  enEExit,      \* how e ended
  enFinRuns,    \* how many times the finalizer was started
  enFinWork,    \* how many times the finalizer has parked
  enFinExit,    \* how the finalizer ended
  enExit,       \* how the whole effect ended
  \* ---- Hub, Subscription (hub.py) ----
  hubClosed,    \* Hub._closed
  hubSubs,      \* Hub._subs: the queues of the subscriptions, by subscriber
  hubReclosed,  \* whether Hub.close was called on the closed hub
  hubRefused,   \* whether a subscribe raised HubClosed
  sbSt,         \* per subscriber: none, open, closed (Subscription._closed)
  sbMax,        \* per subscriber, Queue._maxsize
  sbBuf,        \* per subscriber, Queue._buf
  sbQClosed,    \* per subscriber, Queue._closed
  pbPc,         \* per publisher: idle, parked (in a send), done, raised, refused
  pbSnap,       \* per publisher, what is left of the list subs in the loop of publish
  pbMissed,     \* per publisher, the part of subs a publish that raised never sent to
  \* ---- Stream, StreamE (stream.py) ----
  stKind,       \* Stream (run_collect) or StreamE (run with sink_fold)
  stW,          \* per stage, Stage.workers
  stCap,        \* per stage, Stage.out_capacity: the maxsize of its in_q
  stQ,          \* per queue, Queue._buf
  stQClosed,    \* per queue, Queue._closed
  stActive,     \* per stage, active["n"]
  stFlag,       \* per stage, closed_flag["v"]
  stErr,        \* the error queue of a StreamE
  stRaised,     \* the first exception pushed to the error queue, or raised by a function
  srcPc,        \* the task of from_iterable: run, parked (in a send), done
  srcI,         \* the item from_iterable is at
  wkRecv,       \* per stage, how many workers are at "await in_q.receive()"
  wkFunc,       \* per stage, the items of the workers in the stage function
  wkParked,     \* per stage, the results of the workers parked in "await out.send(y)"
  colPc,        \* run_collect: recv, done
  stOut,        \* the list results of run_collect
  skPc,         \* sink_fold: wait, done
  skReady,      \* what the event loop is to run for sink_fold, in order: the steps of
                \* t_val and t_err, the callback of asyncio.wait, sink_fold itself
  skParked,     \* which of t_val and t_err wait in Queue.receive
  tvRes,        \* the result of the task t_val of this round
  teRes,        \* the result of the task t_err of this round
  skAcc,        \* acc of sink_fold
  skRes,        \* how sink_fold ended
  \* ---- Stream.merge, StreamE.merge (stream.py) ----
  mgCap,        \* the maxsize of out
  mgFed,        \* per side, how many values its upstream has sent
  mgQ,          \* per side, the buffer of q1, q2
  mgQClosed,    \* per side, whether q1, q2 is closed
  pmPc,         \* per side, the pump: recv, parked (in a send), done
  pmX,          \* per side, the value the parked pump holds
  mgOutQ,       \* the buffer of out
  mgOutClosed,  \* whether out is closed
  mgColPc,      \* the consumer of out: recv, done
  mgOut,        \* the values the consumer has got
  \* ---- Channel (channel.py) ----
  chMax,        \* the maxsize of Channel._q
  chBuf,        \* the items in Channel._q
  chClosed,     \* Channel._closed
  chPutters,    \* the senders parked in _q.put(), in the order they parked
  chGetters,    \* the receivers parked in _q.get(), in the order they parked
  chS,          \* where each sender is: idle, waiting, woken, failed
  chR,          \* where each receiver is: idle, waiting, woken
  chSent,       \* how many sends have put their item
  chGot,        \* the items receive has returned, in order
  \* ---- StreamE.via_acquire_release (stream.py) ----
  vaW,          \* the workers argument
  vaCap,        \* the out_capacity argument: the maxsize of in_q
  vaSrcPc,      \* the upstream task: run, parked (in a send to in_q), done
  vaSrcI,       \* how many items the upstream has sent
  vaInQ,        \* how many items in_q holds
  vaInClosed,   \* whether in_q is closed
  vaOutQ,       \* how many items out holds
  vaOutClosed,  \* whether out is closed
  vaErrQ,       \* how many exceptions err holds
  vaActive,     \* active["n"]
  vaFlag,       \* closed_flag["v"]
  vaPc,         \* where each worker is: new, acquire, recv, func, release, done
  vaAcq,        \* per worker, how many times acquire was started
  vaRel,        \* per worker, how many times release was started
  vaNoRsrc,     \* the workers whose acquire raised
  vaSink        \* the sink: run, ok (returned), failed (raised)

qVars == <<qMaxsize, qBuf, qClosed, pPc, pSent, cPc, qGot, qPending, qSnapMany>>
arVars == <<arPc, arLeft, arCancel, arAcqRuns, arRelRuns, arAcqExit, arUseExit, arRelExit,
            arExit, arIntr>>

parVars == <<parComb, parN, parPar, parOrd, parPc, parCancel, parIntr, parOn, parTasks,
             parDrain, parExc, parOuter, parIter, parRes, parExit, kSt, kExit, kCancelAt,
             kWork, semValue, semWaiters>>

lyVars == <<lyOp, lyT, lyScoped, lyPhase, lySt, lyRel, lyInst, lyMemo, lyCtx, lyMk, lyClose,
            lyErr>>

scVars == <<scFinalizers, scClosed, scNext, scAtClose, scRuns, scOut, scLog, scLate, clPc,
            clFin>>

rcVars == <<rcComb, rcN, schedState, rcActive, rcK, rcLast, rcPc, rcAttempts, rcSteps,
            rcHandler, rcFails, rcInner, rcExit>>

rtVars == <<fbTask, fbExit, fbCancel, fbStatus, fbWaiters, fbCallbacks, svTasks, svEvents,
            cuOp, cuPc, cuRes, cuMustCancel, fbNotes, cuExit>>

enVars == <<enPc, enCancel, enIntr, enWork, enEExit, enFinRuns, enFinWork, enFinExit,
            enExit>>

hubVars == <<hubClosed, hubSubs, hubReclosed, hubRefused, sbSt, sbMax, sbBuf, sbQClosed,
             pbPc, pbSnap, pbMissed>>

stVars == <<stKind, stW, stCap, stQ, stQClosed, stActive, stFlag, stErr, stRaised, srcPc, srcI,
            wkRecv, wkFunc, wkParked, colPc, stOut, skPc, skReady, skParked, tvRes, teRes,
            skAcc, skRes>>

mgVars == <<mgCap, mgFed, mgQ, mgQClosed, pmPc, pmX, mgOutQ, mgOutClosed, mgColPc, mgOut>>
chVars == <<chMax, chBuf, chClosed, chPutters, chGetters, chS, chR, chSent, chGot>>
vaVars == <<vaW, vaCap, vaSrcPc, vaSrcI, vaInQ, vaInClosed, vaOutQ, vaOutClosed, vaErrQ,
           vaActive, vaFlag, vaPc, vaAcq, vaRel, vaNoRsrc, vaSink>>

vars == <<qVars, arVars, parVars, lyVars, scVars, rcVars, rtVars, enVars, hubVars, stVars, mgVars, chVars, vaVars>>

\* the variables of the other components
qOthers == <<arVars, parVars, lyVars, scVars, rcVars, rtVars, enVars, hubVars, stVars, mgVars, chVars, vaVars>>
arOthers == <<qVars, parVars, lyVars, scVars, rcVars, rtVars, enVars, hubVars, stVars, mgVars, chVars, vaVars>>
parOthers == <<qVars, arVars, lyVars, scVars, rcVars, rtVars, enVars, hubVars, stVars, mgVars, chVars, vaVars>>
lyOthers == <<qVars, arVars, parVars, scVars, rcVars, rtVars, enVars, hubVars, stVars, mgVars, chVars, vaVars>>
scOthers == <<qVars, arVars, parVars, lyVars, rcVars, rtVars, enVars, hubVars, stVars, mgVars, chVars, vaVars>>
rcOthers == <<qVars, arVars, parVars, lyVars, scVars, rtVars, enVars, hubVars, stVars, mgVars, chVars, vaVars>>
rtOthers == <<qVars, arVars, parVars, lyVars, scVars, rcVars, enVars, hubVars, stVars, mgVars, chVars, vaVars>>
enOthers == <<qVars, arVars, parVars, lyVars, scVars, rcVars, rtVars, hubVars, stVars, mgVars, chVars, vaVars>>
hubOthers == <<qVars, arVars, parVars, lyVars, scVars, rcVars, rtVars, enVars, stVars, mgVars, chVars, vaVars>>
stOthers == <<qVars, arVars, parVars, lyVars, scVars, rcVars, rtVars, enVars, hubVars, mgVars, chVars, vaVars>>
mgOthers == <<qVars, arVars, parVars, lyVars, scVars, rcVars, rtVars, enVars, hubVars, stVars, chVars, vaVars>>
chOthers == <<qVars, arVars, parVars, lyVars, scVars, rcVars, rtVars, enVars, hubVars, stVars, mgVars, vaVars>>
vaOthers == <<qVars, arVars, parVars, lyVars, scVars, rcVars, rtVars, enVars, hubVars, stVars, mgVars, chVars>>

(***************************************************************************)
(* Queue                                                                   *)
(***************************************************************************)
QueueNew(maxsize) ==
  /\ qMaxsize = IF maxsize > 0 THEN maxsize ELSE 0
  /\ qBuf = <<>>
  /\ qClosed = FALSE

\* Condition.notify_all(): every task parked in Condition.wait() is made ready
NotifyAll(pc) == [t \in DOMAIN pc |-> IF pc[t] = "waiting" THEN "woken" ELSE pc[t]]

\* send, line 33: the closed test, made once when send is entered
SendClosedCheck_NoCheck(closed) == FALSE
SendClosedCheck(closed) == closed

\* send, line 35: the loop condition
SendMustWait_OneMore(maxsize, buf) == maxsize > 0 /\ Len(buf) > maxsize
SendMustWait(maxsize, buf) == maxsize > 0 /\ Len(buf) >= maxsize

\* receive, line 44: popleft
PopLeft_Last(buf) == [v |-> buf[Len(buf)], rest |-> SubSeq(buf, 1, Len(buf) - 1)]
PopLeft(buf) == [v |-> Head(buf), rest |-> Tail(buf)]

\* lines 35-38: the loop of send and what follows it, run from its top
SendLoop(p, isCall) ==
  IF SendMustWait(qMaxsize, qBuf)
  THEN /\ pPc' = [pPc EXCEPT ![p] = "waiting"]
       /\ UNCHANGED <<qBuf, pSent, cPc>>
  ELSE /\ qBuf' = Append(qBuf, <<p, pSent[p] + 1>>)
       /\ pSent' = [pSent EXCEPT ![p] = @ + 1]
       /\ pPc' = [NotifyAll(pPc) EXCEPT ![p] = "idle"]
       /\ cPc' = NotifyAll(cPc)

RECURSIVE Sum(_, _)
Sum(f, S) == IF S = {} THEN 0 ELSE LET x == CHOOSE y \in S : TRUE IN f[x] + Sum(f, S \ {x})

\* the sends that appended their item or are parked in Condition.wait()
SendsStarted ==
  Sum(pSent, Producers) + Cardinality({p \in Producers : pPc[p] \in {"waiting", "woken"}})

\* Queue.send entered by producer p
Send(p) ==
  /\ pPc[p] = "idle"
  /\ SendsStarted < MaxSends
  /\ IF SendClosedCheck(qClosed)
     THEN /\ pPc' = [pPc EXCEPT ![p] = "failed"]
          /\ UNCHANGED <<qBuf, pSent, cPc>>
     ELSE SendLoop(p, TRUE)
  /\ UNCHANGED <<qMaxsize, qClosed, qGot, qPending, qSnapMany>>
  /\ UNCHANGED qOthers

\* Queue.send resumed out of Condition.wait() (line 36)
SendResume(p) ==
  /\ pPc[p] = "woken"
  /\ SendLoop(p, FALSE)
  /\ UNCHANGED <<qMaxsize, qClosed, qGot, qPending, qSnapMany>>
  /\ UNCHANGED qOthers

\* lines 42-49: the loop of receive, run from its top
ReceiveLoop(c, isCall) ==
  IF qBuf # <<>>
  THEN /\ qBuf' = PopLeft(qBuf).rest
       /\ qGot' = [qGot EXCEPT ![PopLeft(qBuf).v[1]] = Append(@, PopLeft(qBuf).v)]
       /\ qPending' = IF qPending = <<>> THEN <<>> ELSE Tail(qPending)
       /\ cPc' = [NotifyAll(cPc) EXCEPT ![c] = "idle"]
       /\ pPc' = NotifyAll(pPc)
  ELSE IF qClosed
  THEN /\ cPc' = [cPc EXCEPT ![c] = "failed"]
       /\ UNCHANGED <<qBuf, qGot, qPending, pPc>>
  ELSE /\ cPc' = [cPc EXCEPT ![c] = "waiting"]
       /\ UNCHANGED <<qBuf, qGot, qPending, pPc>>

\* Queue.receive entered by consumer c
Receive(c) ==
  /\ cPc[c] = "idle"
  /\ ReceiveLoop(c, TRUE)
  /\ UNCHANGED <<qMaxsize, qClosed, pSent, qSnapMany>>
  /\ UNCHANGED qOthers

\* Queue.receive resumed out of Condition.wait() (line 49)
ReceiveResume(c) ==
  /\ cPc[c] = "woken"
  /\ ReceiveLoop(c, FALSE)
  /\ UNCHANGED <<qMaxsize, qClosed, pSent, qSnapMany>>
  /\ UNCHANGED qOthers

\* Queue.close, called once by the owner of the queue
Close ==
  /\ ~qClosed
  /\ qClosed' = TRUE
  /\ pPc' = NotifyAll(pPc)
  /\ cPc' = NotifyAll(cPc)
  /\ qPending' = qBuf
  /\ qSnapMany' = (Len(qBuf) >= 2)
  /\ UNCHANGED <<qMaxsize, qBuf, pSent, qGot>>
  /\ UNCHANGED qOthers

QueueStart ==
  /\ pPc = [p \in Producers |-> "idle"]
  /\ pSent = [p \in Producers |-> 0]
  /\ cPc = [c \in Consumers |-> "idle"]
  /\ qGot = [p \in Producers |-> <<>>]
  /\ qPending = <<>>
  /\ qSnapMany = FALSE

\* the queue component when a specification does not use it
QueueIdle == QueueNew(0) /\ QueueStart

QueueNext ==
  \/ \E p \in Producers : Send(p)
  \/ \E p \in Producers : SendResume(p)
  \/ \E c \in Consumers : Receive(c)
  \/ \E c \in Consumers : ReceiveResume(c)
  \/ Close

(***************************************************************************)
(* acquire_release (core.py, lines 609-648)                                *)
(*                                                                         *)
(* One task evaluates acquire_release(acq, rel, use); another task may     *)
(* cancel it at any time.  acq, use(a) and rel(a) are effects that go      *)
(* through at least one suspension point and end with any outcome.         *)
(***************************************************************************)
Vals == {1, 2}
NoExit == [kind |-> "none", val |-> 0]
Success(v) == [kind |-> "success", val |-> v]
Fail(e) == [kind |-> "fail", val |-> e]
Die == [kind |-> "die", val |-> 0]
Interrupt == [kind |-> "interrupt", val |-> 0]
\* how an effect that is not cancelled can end
Outcomes == {Success(v) : v \in Vals} \cup {Fail(e) : e \in Vals} \cup {Die}

\* Failure and the exceptions behind a die are Exceptions, CancelledError is not
IsException(exit) == exit.kind \in {"fail", "die"}

\* lines 641-645: "try: await release(a)._run(ctx2) / except Exception: pass"
\* inside the finally clause of body: what leaves body
BodyExit_NoExcept(useExit, relExit) ==
  IF relExit.kind = "success" THEN useExit ELSE relExit
BodyExit(useExit, relExit) ==
  IF relExit.kind = "success" \/ IsException(relExit) THEN useExit ELSE relExit

ArIdle ==
  /\ arPc = "idle"
  /\ arLeft = 0
  /\ arCancel = FALSE
  /\ arAcqRuns = 0
  /\ arRelRuns = 0
  /\ arAcqExit = NoExit
  /\ arUseExit = NoExit
  /\ arRelExit = NoExit
  /\ arExit = NoExit
  /\ arIntr = {}

\* asyncio.create_task(acquire_release(...)._run(ctx)): the task first runs up
\* to the first suspension point of acq (line 636); a task cancelled before it
\* ran ends without running anything
ArStart ==
  /\ arPc = "new"
  /\ IF arCancel
     THEN /\ arPc' = "done"
          /\ arExit' = Interrupt
          /\ arCancel' = FALSE
          /\ arIntr' = arIntr \cup {"new"}
          /\ UNCHANGED <<arAcqRuns, arLeft>>
     ELSE /\ arPc' = "acquire"
          /\ arAcqRuns' = arAcqRuns + 1
          /\ \E n \in 0..MaxSteps : arLeft' = n
          /\ UNCHANGED <<arExit, arCancel, arIntr>>
  /\ UNCHANGED <<arRelRuns, arAcqExit, arUseExit, arRelExit>>
  /\ UNCHANGED arOthers

\* line 639-641: use has ended with useExit, the finally clause starts rel
ArEnterFinally(useExit) ==
  /\ arUseExit' = useExit
  /\ arRelRuns' = arRelRuns + 1
  /\ arPc' = "release"
  /\ \E n \in 0..MaxSteps : arLeft' = n

\* the task resumes inside acq (line 636)
ArAcquireStep ==
  /\ arPc = "acquire"
  /\ IF arCancel
     THEN /\ arAcqExit' = Interrupt
          /\ arExit' = Interrupt
          /\ arPc' = "done"
          /\ arCancel' = FALSE
          /\ arIntr' = arIntr \cup {"acquire"}
          /\ UNCHANGED arLeft
     ELSE \/ /\ arLeft > 0
             /\ arLeft' = arLeft - 1
             /\ UNCHANGED <<arPc, arAcqExit, arExit, arCancel, arIntr>>
          \/ \E o \in Outcomes :
               /\ arAcqExit' = o
               /\ IF o.kind = "success"
                  THEN /\ arPc' = "use"
                       /\ \E n \in 0..MaxSteps : arLeft' = n
                       /\ UNCHANGED arExit
                  ELSE /\ arPc' = "done"
                       /\ arExit' = o
                       /\ UNCHANGED arLeft
               /\ UNCHANGED <<arCancel, arIntr>>
  /\ UNCHANGED <<arAcqRuns, arRelRuns, arUseExit, arRelExit>>
  /\ UNCHANGED arOthers

\* the task resumes inside use(a) (line 639); whatever way use ends, the
\* finally clause runs rel up to its first suspension point
ArUseStep ==
  /\ arPc = "use"
  /\ IF arCancel
     THEN /\ ArEnterFinally(Interrupt)
          /\ arCancel' = FALSE
          /\ arIntr' = arIntr \cup {"use"}
     ELSE \/ /\ arLeft > 0
             /\ arLeft' = arLeft - 1
             /\ UNCHANGED <<arPc, arUseExit, arRelRuns, arCancel, arIntr>>
          \/ \E o \in Outcomes :
               /\ ArEnterFinally(o)
               /\ UNCHANGED <<arCancel, arIntr>>
  /\ UNCHANGED <<arAcqRuns, arAcqExit, arRelExit, arExit>>
  /\ UNCHANGED arOthers

\* the task resumes inside rel(a) (line 642)
ArReleaseStep ==
  /\ arPc = "release"
  /\ IF arCancel
     THEN /\ arRelExit' = Interrupt
          /\ arExit' = BodyExit(arUseExit, Interrupt)
          /\ arPc' = "done"
          /\ arCancel' = FALSE
          /\ arIntr' = arIntr \cup {"release"}
          /\ UNCHANGED arLeft
     ELSE \/ /\ arLeft > 0
             /\ arLeft' = arLeft - 1
             /\ UNCHANGED <<arPc, arRelExit, arExit, arCancel, arIntr>>
          \/ \E o \in Outcomes :
               /\ arRelExit' = o
               /\ arExit' = BodyExit(arUseExit, o)
               /\ arPc' = "done"
               /\ UNCHANGED <<arLeft, arCancel, arIntr>>
  /\ UNCHANGED <<arAcqRuns, arRelRuns, arAcqExit, arUseExit>>
  /\ UNCHANGED arOthers

\* another task calls cancel() on the task
ArInterrupt ==
  /\ arPc \in {"new", "acquire", "use", "release"}
  /\ ~arCancel
  /\ arCancel' = TRUE
  /\ UNCHANGED <<arPc, arLeft, arAcqRuns, arRelRuns, arAcqExit, arUseExit, arRelExit,
                 arExit, arIntr>>
  /\ UNCHANGED arOthers

(***************************************************************************)
(* Child tasks of the parallel combinators (core.py)                       *)
(*                                                                         *)
(* A child is a task made by asyncio.create_task(e._run(ctx)).  Its effect *)
(* runs from suspension point to suspension point and may end at any of    *)
(* them, with a value, a Fail or a Die; a child on which cancel() was      *)
(* called sees CancelledError the next time it runs and ends there.        *)
(***************************************************************************)
Kids == 1..NumItems
NoneVal == 0
\* how the effect of child i can end when it is not cancelled
KidOutcomes(i) == {Success(NoneVal), Success(i), Fail(i), Die}

KidDone(i) == kExit[i] # NoExit
KidCancelled(i) == kCancelAt[i] >= 0
\* Task.cancel() on the children in S that are not done
CancelAt(S) ==
  [i \in Kids |-> IF i \in S /\ ~KidDone(i) /\ kCancelAt[i] < 0 THEN kWork[i]
                  ELSE kCancelAt[i]]

\* asyncio.gather (tasks.py): the outer future takes the first exception of a
\* child, or the result once every child has ended.  The waiter future of
\* asyncio.wait(FIRST_COMPLETED) in race is resolved by the first child that
\* ends; the outcome of that child is kept with it
GatherOuter(i, exit) ==
  IF parPc = "gather" /\ parOuter = NoExit /\ i \in parTasks
  THEN IF exit.kind # "success" THEN exit
       ELSE IF \A j \in parTasks \ {i} : KidDone(j) THEN Success(NoneVal)
       ELSE NoExit
  ELSE IF parComb = "race" /\ parPc = "wait" /\ parOuter = NoExit /\ i \in parTasks
  THEN exit
  ELSE parOuter

\* a child task of zip_par, race, merge_all or uninterruptible runs once
TaskStep(i) ==
  /\ parComb \in {"zip_par", "race", "merge_all", "uninterruptible"}
  /\ kSt[i] \in {"new", "run"}
  /\ \/ /\ KidCancelled(i)
        /\ kSt' = [kSt EXCEPT ![i] = "done"]
        /\ kExit' = [kExit EXCEPT ![i] = Interrupt]
        /\ parOuter' = GatherOuter(i, Interrupt)
        /\ UNCHANGED kWork
     \/ /\ ~KidCancelled(i)
        /\ kWork[i] <= MaxSteps
        /\ kSt' = [kSt EXCEPT ![i] = "run"]
        /\ kWork' = [kWork EXCEPT ![i] = @ + 1]
        /\ UNCHANGED <<kExit, parOuter>>
     \/ /\ ~KidCancelled(i)
        /\ \E o \in KidOutcomes(i) :
             /\ kSt' = [kSt EXCEPT ![i] = "done"]
             /\ kExit' = [kExit EXCEPT ![i] = o]
             /\ parOuter' = GatherOuter(i, o)
        /\ kWork' = [kWork EXCEPT ![i] = @ + 1]
  /\ UNCHANGED <<parComb, parN, parPar, parOrd, parPc, parCancel, parIntr, parOn, parTasks,
                 parDrain, parExc, parIter, parRes, parExit, kCancelAt, semValue,
                 semWaiters>>
  /\ UNCHANGED parOthers

ParIdle ==
  /\ parComb = "idle"
  /\ parN = 0
  /\ parPar = 0
  /\ parOrd = FALSE
  /\ parPc = "idle"
  /\ parCancel = FALSE
  /\ parIntr = FALSE
  /\ parOn = 0
  /\ parTasks = {}
  /\ parDrain = {}
  /\ parExc = NoExit
  /\ parOuter = NoExit
  /\ parIter = 0
  /\ parRes = <<>>
  /\ parExit = NoExit
  /\ kSt = [i \in Kids |-> "none"]
  /\ kExit = [i \in Kids |-> NoExit]
  /\ kCancelAt = [i \in Kids |-> -1]
  /\ kWork = [i \in Kids |-> 0]
  /\ semValue = 0
  /\ semWaiters = <<>>

\* the parent task, just created, evaluating combinator comb on n effects
ParNew(comb, n, par, ord) ==
  /\ parComb = comb
  /\ parN = n
  /\ parPar = par
  /\ parOrd = ord
  /\ parPc = "new"
  /\ parCancel = FALSE
  /\ parIntr = FALSE
  /\ parOn = 0
  /\ parTasks = {}
  /\ parDrain = {}
  /\ parExc = NoExit
  /\ parOuter = NoExit
  /\ parIter = 0
  /\ parRes = <<>>
  /\ parExit = NoExit
  /\ kSt = [i \in Kids |-> "none"]
  /\ kExit = [i \in Kids |-> NoExit]
  /\ kCancelAt = [i \in Kids |-> -1]
  /\ kWork = [i \in Kids |-> 0]
  /\ semValue = 0
  /\ semWaiters = <<>>

\* the parent task was cancelled before it ran: it ends without running
ParCancelledBeforeStart ==
  /\ parPc' = "done"
  /\ parExit' = Interrupt
  /\ parCancel' = FALSE
  /\ UNCHANGED <<parOn, parTasks, parDrain, parExc, parOuter, parIter, parRes, kSt, kExit,
                 kCancelAt, kWork, semValue, semWaiters>>

\* whether the parent task, parked where it is, can run
ParRunnable ==
  \/ parPc = "new"
  \/ parCancel
  \/ parPc \in {"await", "drain"} /\ KidDone(parOn)
  \/ parPc = "wait" /\ parComb \in {"race", "merge_all"} /\ \E i \in parTasks : KidDone(i)
  \/ /\ parPc = "wait" /\ parComb = "for_each_par"
     /\ \/ \A i \in parTasks : KidDone(i)
        \/ \E i \in parTasks : IsException(kExit[i])
  \/ parPc = "gather" /\ parOuter # NoExit
  \/ parPc = "inline"

\* the children in the order in which a drain loop awaits them: the loops of
\* zip_par and of ordered merge_all go through a tuple or a list, the others
\* through a set
DrainFirst(S) ==
  IF parComb = "zip_par" \/ (parComb = "merge_all" /\ parOrd)
  THEN {i \in S : \A j \in S : i <= j}
  ELSE S

\* "for t in ...: try: await t / except BaseException: pass", entered or
\* resumed with the children in S left: awaiting a child that is done does not
\* suspend; the parent parks on the first that is not, or ends with exc
DrainFrom(S, exc, res) ==
  LET left == {i \in S : ~KidDone(i)} IN
    IF left = {}
    THEN /\ parPc' = "done"
         /\ parExit' = exc
         /\ parRes' = res
         /\ parOn' = 0
         /\ parDrain' = {}
         /\ parExc' = NoExit
    ELSE /\ \E i \in DrainFirst(left) :
              /\ parOn' = i
              /\ parDrain' = left \ {i}
         /\ parPc' = "drain"
         /\ parExc' = exc
         /\ parRes' = res
         /\ UNCHANGED parExit

\* the parent resumes in a drain loop; a CancelledError it sees there is swallowed
ParDrain ==
  /\ parPc = "drain"
  /\ ParRunnable
  /\ parCancel' = FALSE
  /\ DrainFrom(parDrain, parExc, parRes)
  /\ UNCHANGED <<parComb, parN, parPar, parOrd, parIntr, parTasks, parOuter, parIter, kSt,
                 kExit, kCancelAt, kWork, semValue, semWaiters>>
  /\ UNCHANGED parOthers

\* another task calls cancel() on the parent task (Task.cancel, tasks.py): the
\* call is passed on to the future the parent is parked on; where that is a
\* child task the child is cancelled, where it is the future of asyncio.gather
\* all its children are; otherwise the parent sees CancelledError when it runs
ParInterrupt ==
  /\ parPc \notin {"idle", "done"}
  /\ ~parIntr
  /\ parIntr' = TRUE
  /\ IF parPc \in {"await", "drain"} /\ ~KidDone(parOn)
     THEN /\ kCancelAt' = CancelAt({parOn})
          /\ UNCHANGED parCancel
     ELSE IF parPc = "gather" /\ parOuter = NoExit
     THEN /\ kCancelAt' = CancelAt(parTasks)
          /\ UNCHANGED parCancel
     ELSE /\ parCancel' = TRUE
          /\ UNCHANGED kCancelAt
  /\ UNCHANGED <<parComb, parN, parPar, parOrd, parPc, parOn, parTasks, parDrain, parExc,
                 parOuter, parIter, parRes, parExit, kSt, kExit, kWork, semValue,
                 semWaiters>>
  /\ UNCHANGED parOthers

(***************************************************************************)
(* zip_par (core.py, lines 651-694)                                        *)
(***************************************************************************)
\* lines 684-685: the tasks the handler cancels
ZipCancelled_None == {}
ZipCancelled == {i \in {1, 2} : ~KidDone(i)}

\* lines 683-693: the handler of zip_par
ZipHandler(exc) ==
  /\ kCancelAt' = CancelAt(ZipCancelled)
  /\ DrainFrom({1, 2}, exc, <<>>)

\* lines 675-680: the parent creates both tasks and parks on "await t1"
ZipStart ==
  /\ parComb = "zip_par"
  /\ parPc = "new"
  /\ IF parCancel
     THEN ParCancelledBeforeStart
     ELSE /\ kSt' = [i \in Kids |-> IF i \in {1, 2} THEN "new" ELSE kSt[i]]
          /\ parTasks' = {1, 2}
          /\ parPc' = "await"
          /\ parOn' = 1
          /\ UNCHANGED <<parCancel, parDrain, parExc, parOuter, parIter, parRes, parExit,
                         kExit, kCancelAt, kWork, semValue, semWaiters>>
  /\ UNCHANGED <<parComb, parN, parPar, parOrd, parIntr>>
  /\ UNCHANGED parOthers

\* lines 680-682: the parent resumes from "a = await t1" or "b = await t2"
ZipAwait ==
  /\ parComb = "zip_par"
  /\ parPc = "await"
  /\ ParRunnable
  /\ parCancel' = FALSE
  /\ IF parCancel
     THEN ZipHandler(Interrupt)
     ELSE IF kExit[parOn].kind # "success"
     THEN ZipHandler(kExit[parOn])
     ELSE IF parOn = 1 /\ ~KidDone(2)
     THEN /\ parOn' = 2
          /\ UNCHANGED <<parPc, parDrain, parExc, parRes, parExit, kCancelAt>>
     ELSE IF kExit[2].kind # "success"
     THEN ZipHandler(kExit[2])
     ELSE /\ parPc' = "done"
          /\ parExit' = Success(NoneVal)
          /\ parRes' = <<kExit[1].val, kExit[2].val>>
          /\ parOn' = 0
          /\ UNCHANGED <<parDrain, parExc, kCancelAt>>
  /\ UNCHANGED <<parComb, parN, parPar, parOrd, parIntr, parTasks, parOuter, parIter, kSt,
                 kExit, kWork, semValue, semWaiters>>
  /\ UNCHANGED parOthers

(***************************************************************************)
(* race (core.py, lines 697-738)                                           *)
(***************************************************************************)
\* lines 720-724: the parent creates both tasks and parks in asyncio.wait
RaceStart ==
  /\ parComb = "race"
  /\ parPc = "new"
  /\ IF parCancel
     THEN ParCancelledBeforeStart
     ELSE /\ kSt' = [i \in Kids |-> IF i \in {1, 2} THEN "new" ELSE kSt[i]]
          /\ parTasks' = {1, 2}
          /\ parPc' = "wait"
          /\ UNCHANGED <<parCancel, parOn, parDrain, parExc, parOuter, parIter, parRes,
                         parExit, kExit, kCancelAt, kWork, semValue, semWaiters>>
  /\ UNCHANGED <<parComb, parN, parPar, parOrd, parIntr>>
  /\ UNCHANGED parOthers

\* lines 724-737: the parent resumes from asyncio.wait(FIRST_COMPLETED); a
\* CancelledError raised there leaves run, the line is in no try block
RaceWait ==
  /\ parComb = "race"
  /\ parPc = "wait"
  /\ ParRunnable
  /\ parCancel' = FALSE
  /\ IF parCancel
     THEN /\ parPc' = "done"
          /\ parExit' = Interrupt
          /\ UNCHANGED <<parOn, parDrain, parExc, parRes, kCancelAt>>
     ELSE \E first \in {i \in parTasks : KidDone(i)} :
            LET pending == {i \in parTasks : ~KidDone(i)} IN
              /\ kCancelAt' = CancelAt(pending)
              /\ DrainFrom(pending, kExit[first],
                           IF kExit[first].kind = "success" THEN <<kExit[first].val>>
                           ELSE <<>>)
  /\ UNCHANGED <<parComb, parN, parPar, parOrd, parIntr, parTasks, parOuter, parIter, kSt,
                 kExit, kWork, semValue, semWaiters>>
  /\ UNCHANGED parOthers

(***************************************************************************)
(* uninterruptible (core.py, lines 589-597)                                *)
(***************************************************************************)
\* lines 591-593: the parent makes a task for the effect and parks on "await task"
UnintStart ==
  /\ parComb = "uninterruptible"
  /\ parPc = "new"
  /\ IF parCancel
     THEN ParCancelledBeforeStart
     ELSE /\ kSt' = [i \in Kids |-> IF i = 1 THEN "new" ELSE kSt[i]]
          /\ parTasks' = {1}
          /\ parPc' = "await"
          /\ parOn' = 1
          /\ UNCHANGED <<parCancel, parDrain, parExc, parOuter, parIter, parRes, parExit,
                         kExit, kCancelAt, kWork, semValue, semWaiters>>
  /\ UNCHANGED <<parComb, parN, parPar, parOrd, parIntr>>
  /\ UNCHANGED parOthers

\* lines 593-596: the parent resumes from "await task".  On CancelledError
\* the handler awaits the task again, which has ended by then, and the bare
\* raise of the finally clause raises what is being propagated: the
\* exception of the task, or the CancelledError when the task returned
UnintAwait ==
  /\ parComb = "uninterruptible"
  /\ parPc = "await"
  /\ KidDone(1)
  /\ parPc' = "done"
  /\ parCancel' = FALSE
  /\ parOn' = 0
  /\ parExit' = IF parCancel /\ kExit[1].kind = "success" THEN Interrupt ELSE kExit[1]
  /\ parRes' = IF parExit'.kind = "success" THEN <<kExit[1].val>> ELSE parRes
  /\ UNCHANGED <<parDrain, parExc, kCancelAt>>
  /\ UNCHANGED <<parComb, parN, parPar, parOrd, parIntr, parTasks, parOuter, parIter, kSt,
                 kExit, kWork, semValue, semWaiters>>
  /\ UNCHANGED parOthers

(***************************************************************************)
(* for_each_par (core.py, lines 742-798)                                   *)
(***************************************************************************)
SemLocked_Never == FALSE

\* Semaphore.locked (locks.py): a waiter whose future was cancelled does not count
SemLocked ==
  \/ semValue = 0
  \/ \E j \in 1..Len(semWaiters) :
       ~(kSt[semWaiters[j]] = "semwait" /\ KidCancelled(semWaiters[j]))

\* Semaphore._wake_up_next: the first waiter whose future is not done gets the permit
SemWake(value, waiters, st) ==
  LET cands == {j \in 1..Len(waiters) :
                  st[waiters[j]] = "semwait" /\ ~KidCancelled(waiters[j])} IN
    IF cands = {}
    THEN [value |-> value, st |-> st]
    ELSE LET j == CHOOSE c \in cands : \A c2 \in cands : c <= c2 IN
           [value |-> value - 1, st |-> [st EXCEPT ![waiters[j]] = "semwoken"]]

Without(waiters, i) == SelectSeq(waiters, LAMBDA w : w # i)

\* line 775: results[i] = await f(x)._run(ctx); the effect of item i runs once
\* inside "async with sem" and parks or ends, which releases the semaphore
WorkerRun(i, value, waiters, st) ==
  \/ /\ kWork[i] <= MaxSteps
     /\ kSt' = [st EXCEPT ![i] = "run"]
     /\ kWork' = [kWork EXCEPT ![i] = @ + 1]
     /\ semValue' = value
     /\ semWaiters' = waiters
     /\ UNCHANGED <<kExit, parRes>>
  \/ \E o \in KidOutcomes(i) :
       LET w == SemWake(value + 1, waiters, [st EXCEPT ![i] = "done"]) IN
         /\ kSt' = w.st
         /\ semValue' = w.value
         /\ semWaiters' = waiters
         /\ kExit' = [kExit EXCEPT ![i] = o]
         /\ kWork' = [kWork EXCEPT ![i] = @ + 1]
         /\ parRes' = IF o.kind = "success" THEN [parRes EXCEPT ![i] = o.val] ELSE parRes

\* lines 772-775: a worker task of for_each_par runs once
WorkerStep(i) ==
  /\ parComb = "for_each_par"
  /\ \/ /\ kSt[i] = "new"
        /\ IF KidCancelled(i)
           THEN /\ kSt' = [kSt EXCEPT ![i] = "done"]
                /\ kExit' = [kExit EXCEPT ![i] = Interrupt]
                /\ UNCHANGED <<kWork, semValue, semWaiters, parRes>>
           ELSE IF SemLocked
           THEN /\ kSt' = [kSt EXCEPT ![i] = "semwait"]
                /\ semWaiters' = Append(semWaiters, i)
                /\ UNCHANGED <<kExit, kWork, semValue, parRes>>
           ELSE WorkerRun(i, semValue - 1, semWaiters, kSt)
     \/ /\ kSt[i] = "semwait"
        /\ KidCancelled(i)
        /\ kSt' = [kSt EXCEPT ![i] = "done"]
        /\ kExit' = [kExit EXCEPT ![i] = Interrupt]
        /\ semWaiters' = Without(semWaiters, i)
        /\ UNCHANGED <<kWork, semValue, parRes>>
     \/ /\ kSt[i] = "semwoken"
        /\ IF KidCancelled(i)
           THEN LET w == SemWake(semValue + 1, Without(semWaiters, i),
                                 [kSt EXCEPT ![i] = "done"]) IN
                  /\ kSt' = w.st
                  /\ semValue' = w.value
                  /\ semWaiters' = Without(semWaiters, i)
                  /\ kExit' = [kExit EXCEPT ![i] = Interrupt]
                  /\ UNCHANGED <<kWork, parRes>>
           ELSE LET w == IF semValue > 0
                         THEN SemWake(semValue, Without(semWaiters, i), kSt)
                         ELSE [value |-> semValue, st |-> kSt] IN
                  WorkerRun(i, w.value, Without(semWaiters, i), w.st)
     \/ /\ kSt[i] = "run"
        /\ IF KidCancelled(i)
           THEN LET w == SemWake(semValue + 1, semWaiters, [kSt EXCEPT ![i] = "done"]) IN
                  /\ kSt' = w.st
                  /\ semValue' = w.value
                  /\ kExit' = [kExit EXCEPT ![i] = Interrupt]
                  /\ UNCHANGED <<kWork, semWaiters, parRes>>
           ELSE WorkerRun(i, semValue, semWaiters, kSt)
  /\ UNCHANGED <<parComb, parN, parPar, parOrd, parPc, parCancel, parIntr, parOn, parTasks,
                 parDrain, parExc, parOuter, parIter, parExit, kCancelAt>>
  /\ UNCHANGED parOthers

\* line 798: return [r for r in results if r is not None]
NotNone(res) == SelectSeq(res, LAMBDA r : r # NoneVal)

\* lines 767-779: the parent creates one worker per item and parks in
\* asyncio.wait, which raises ValueError when there is no task
FepStart ==
  /\ parComb = "for_each_par"
  /\ parPc = "new"
  /\ IF parCancel
     THEN ParCancelledBeforeStart
     ELSE /\ semValue' = IF parPar >= 1 THEN parPar ELSE 1
          /\ parRes' = [i \in 1..parN |-> NoneVal]
          /\ kSt' = [i \in Kids |-> IF i <= parN THEN "new" ELSE kSt[i]]
          /\ parTasks' = 1..parN
          /\ IF parN = 0
             THEN /\ parPc' = "done"
                  /\ parExit' = Die
             ELSE /\ parPc' = "wait"
                  /\ UNCHANGED parExit
          /\ UNCHANGED <<parCancel, parOn, parDrain, parExc, parOuter, parIter, kExit,
                         kCancelAt, kWork, semWaiters>>
  /\ UNCHANGED <<parComb, parN, parPar, parOrd, parIntr>>
  /\ UNCHANGED parOthers

\* lines 779-798: the parent resumes from asyncio.wait(FIRST_EXCEPTION); the
\* handler of line 795 only re-raises
FepWait ==
  /\ parComb = "for_each_par"
  /\ parPc = "wait"
  /\ ParRunnable
  /\ parCancel' = FALSE
  /\ IF parCancel
     THEN /\ parPc' = "done"
          /\ parExit' = Interrupt
          /\ UNCHANGED <<parOn, parDrain, parExc, parRes, kCancelAt>>
     ELSE LET done == {i \in parTasks : KidDone(i)}
              pending == parTasks \ done
              failed == {i \in done : IsException(kExit[i])} IN
            IF failed # {}
            THEN \E t \in failed :
                   /\ kCancelAt' = CancelAt(pending)
                   /\ DrainFrom(pending, kExit[t], parRes)
            ELSE /\ parPc' = "done"
                 /\ parExit' = Success(NoneVal)
                 /\ parRes' = NotNone(parRes)
                 /\ UNCHANGED <<parOn, parDrain, parExc, kCancelAt>>
  /\ UNCHANGED <<parComb, parN, parPar, parOrd, parIntr, parTasks, parOuter, parIter, kSt,
                 kExit, kWork, semValue, semWaiters>>
  /\ UNCHANGED parOthers

(***************************************************************************)
(* merge_all (core.py, lines 848-923)                                      *)
(***************************************************************************)
\* the orders in which "for d in done" can go through the set done
Perms(S) ==
  {q \in [1..Cardinality(S) -> S] : \A a, b \in 1..Cardinality(S) : a # b => q[a] # q[b]}

\* the values of the children q[1..n], in that order
ValuesOf(q, n) == [j \in 1..n |-> kExit[q[j]].val]

\* lines 880-882 and 917-919: "for e in eff_iter: results.append(await
\* e._run(ctx))", entered with the effects from k on left, or resumed inside
\* effect k: the parent task itself runs the effects k..m-1 to their end and
\* then parks inside effect m, or effect m fails, or no effect is left
InlineFrom(k, res) ==
  \E m \in k..(parN + 1) :
    \E vals \in [k..(m - 1) -> {NoneVal} \cup Kids] :
      /\ \A j \in k..(m - 1) : vals[j] \in {NoneVal, j}
      /\ LET res2 == res \o [j \in 1..(m - k) |-> vals[k + j - 1]]
             ended == [j \in Kids |-> IF j \in k..(m - 1) THEN Success(vals[j])
                                      ELSE kExit[j]]
             st == [j \in Kids |-> IF j \in k..(m - 1) THEN "done" ELSE kSt[j]] IN
           /\ parRes' = res2
           /\ parIter' = IF m <= parN THEN m ELSE parN
           /\ kWork' = [j \in Kids |-> IF j \in k..m THEN kWork[j] + 1 ELSE kWork[j]]
           /\ IF m = parN + 1
              THEN /\ parPc' = "done"
                   /\ parExit' = Success(NoneVal)
                   /\ parOn' = 0
                   /\ kExit' = ended
                   /\ kSt' = st
              ELSE \/ /\ kWork[m] <= MaxSteps
                      /\ parPc' = "inline"
                      /\ parOn' = m
                      /\ kExit' = ended
                      /\ kSt' = [st EXCEPT ![m] = "inline"]
                      /\ UNCHANGED parExit
                   \/ \E o \in {Fail(m), Die} :
                        /\ parPc' = "done"
                        /\ parExit' = o
                        /\ parOn' = 0
                        /\ kExit' = [ended EXCEPT ![m] = o]
                        /\ kSt' = [st EXCEPT ![m] = "done"]

\* lines 850-864 and 866, 886: the parent creates the first tasks and parks in
\* asyncio.gather (preserve_order) or in asyncio.wait
MaStart ==
  /\ parComb = "merge_all"
  /\ parPc = "new"
  /\ IF parCancel
     THEN ParCancelledBeforeStart
     ELSE LET start == IF parPar <= 0 THEN parN ELSE Min(parPar, parN) IN
            /\ kSt' = [i \in Kids |-> IF i <= start THEN "new" ELSE kSt[i]]
            /\ parTasks' = 1..start
            /\ parIter' = start
            /\ IF start = 0
               THEN /\ parPc' = "done"
                    /\ parExit' = Success(NoneVal)
               ELSE /\ parPc' = IF parOrd THEN "gather" ELSE "wait"
                    /\ UNCHANGED parExit
            /\ UNCHANGED <<parCancel, parOn, parDrain, parExc, parOuter, parRes, kExit,
                           kCancelAt, kWork, semValue, semWaiters>>
  /\ UNCHANGED <<parComb, parN, parPar, parOrd, parIntr>>
  /\ UNCHANGED parOthers

\* lines 866-883: the parent resumes from "await asyncio.gather(*tasks)"
MaGather ==
  /\ parComb = "merge_all"
  /\ parPc = "gather"
  /\ ParRunnable
  /\ parCancel' = FALSE
  /\ IF parCancel \/ parOuter.kind # "success"
     THEN /\ kCancelAt' = CancelAt(parTasks)
          /\ DrainFrom(parTasks, IF parCancel THEN Interrupt ELSE parOuter, parRes)
          /\ UNCHANGED <<parIter, kSt, kExit, kWork>>
     ELSE /\ InlineFrom(parIter + 1, [j \in 1..parIter |-> kExit[j].val])
          /\ UNCHANGED <<parDrain, parExc, kCancelAt>>
  /\ UNCHANGED <<parComb, parN, parPar, parOrd, parIntr, parTasks, parOuter, semValue,
                 semWaiters>>
  /\ UNCHANGED parOthers

\* lines 880-882: the parent resumes inside the effect it runs itself; a
\* CancelledError it sees there leaves run
MaInline ==
  /\ parComb = "merge_all"
  /\ parPc = "inline"
  /\ parCancel' = FALSE
  /\ IF parCancel
     THEN /\ parPc' = "done"
          /\ parExit' = Interrupt
          /\ kSt' = [kSt EXCEPT ![parOn] = "done"]
          /\ kExit' = [kExit EXCEPT ![parOn] = Interrupt]
          /\ parOn' = 0
          /\ UNCHANGED <<parRes, parIter, kWork>>
     ELSE InlineFrom(parOn, parRes)
  /\ UNCHANGED <<parComb, parN, parPar, parOrd, parIntr, parTasks, parDrain, parExc,
                 parOuter, kCancelAt, semValue, semWaiters>>
  /\ UNCHANGED parOthers

\* lines 886-916: the parent resumes from asyncio.wait(FIRST_COMPLETED), goes
\* through the done tasks, and refills the pool; the handler of line 921 only
\* re-raises
MaWait ==
  /\ parComb = "merge_all"
  /\ parPc = "wait"
  /\ ParRunnable
  /\ parCancel' = FALSE
  /\ IF parCancel
     THEN /\ parPc' = "done"
          /\ parExit' = Interrupt
          /\ UNCHANGED <<parOn, parTasks, parDrain, parExc, parIter, parRes, kSt,
                         kCancelAt>>
     ELSE LET done == {i \in parTasks : KidDone(i)}
              pending == parTasks \ done IN
            \E q \in Perms(done) :
              LET bad == {j \in 1..Cardinality(done) : kExit[q[j]].kind # "success"} IN
                IF bad # {}
                THEN LET j == CHOOSE b \in bad : \A b2 \in bad : b <= b2 IN
                       /\ kCancelAt' = CancelAt(pending)
                       /\ DrainFrom(pending, kExit[q[j]], parRes \o ValuesOf(q, j - 1))
                       /\ UNCHANGED <<parTasks, parIter, kSt>>
                ELSE LET toAdd == IF parPar > 0
                                  THEN Min(parPar - Cardinality(pending), parN - parIter)
                                  ELSE 0
                         added == (parIter + 1)..(parIter + toAdd) IN
                       /\ parRes' = parRes \o ValuesOf(q, Cardinality(done))
                       /\ parTasks' = pending \cup added
                       /\ parIter' = parIter + toAdd
                       /\ kSt' = [i \in Kids |-> IF i \in added THEN "new" ELSE kSt[i]]
                       /\ IF pending \cup added = {}
                          THEN /\ parPc' = "done"
                               /\ parExit' = Success(NoneVal)
                          ELSE UNCHANGED <<parPc, parExit>>
                       /\ UNCHANGED <<parOn, parDrain, parExc, kCancelAt>>
  /\ UNCHANGED <<parComb, parN, parPar, parOrd, parIntr, parOuter, kExit, kWork, semValue,
                 semWaiters>>
  /\ UNCHANGED parOthers

(***************************************************************************)
(* Layer (layer.py)                                                        *)
(*                                                                         *)
(* One composite layer  from_resource(t1, ..) op from_resource(t2, ..)     *)
(* with op one of + and |, built over an empty Context with build (and     *)
(* torn down with teardown, which releases with a new memo) or with        *)
(* build_scoped (and torn down by the close of the scope, which releases   *)
(* with the memo of the build).  mk and close may return at once or        *)
(* suspend, and may raise.  The instance made by the mk call of occurrence *)
(* w is named w.                                                           *)
(***************************************************************************)
Sides == {1, 2}
Types == {1, 2}
NoInst == 0
NoErr == [kind |-> "none", side |-> 0]
EmptyMemo == [t \in Types |-> NoInst]

\* Context.add (context.py, line 68)
CtxAdd(ctx, t, inst) == [ctx EXCEPT ![t] = inst]

\* the Context returned by the acquire of occurrence w
CtxOf(w, inst) ==
  IF lyOp = "+" /\ w = 2
  THEN CtxAdd(CtxAdd(EmptyMemo, lyT[1], inst[1]), lyT[2], inst[2])
  ELSE CtxAdd(EmptyMemo, lyT[w], inst[w])

\* __or__.acq, lines 144-147: c1 with the entries of c2 added
Merged(inst) ==
  LET c1 == CtxOf(1, inst)  c2 == CtxOf(2, inst) IN
    [t \in Types |-> IF c2[t] # NoInst THEN c2[t] ELSE c1[t]]

\* from_resource.release, line 187: memo.get(key) or ctx.get(t)
ReleaseInst(memo, ctx, t) == IF memo[t] # NoInst THEN memo[t] ELSE ctx[t]

LyIdle ==
  /\ lyOp = "+"
  /\ lyT = <<1, 1>>
  /\ lyScoped = FALSE
  /\ lyPhase = "idle"
  /\ lySt = [w \in Sides |-> "none"]
  /\ lyRel = [w \in Sides |-> "none"]
  /\ lyInst = [w \in Sides |-> NoInst]
  /\ lyMemo = EmptyMemo
  /\ lyCtx = EmptyMemo
  /\ lyMk = [t \in Types |-> 0]
  /\ lyClose = [i \in Sides |-> 0]
  /\ lyErr = NoErr

LyNew(op, t1, t2, scoped) ==
  /\ lyOp = op
  /\ lyT = <<t1, t2>>
  /\ lyScoped = scoped
  /\ lyPhase = "new"
  /\ lySt = [w \in Sides |-> "none"]
  /\ lyRel = [w \in Sides |-> "none"]
  /\ lyInst = [w \in Sides |-> NoInst]
  /\ lyMemo = EmptyMemo
  /\ lyCtx = EmptyMemo
  /\ lyMk = [t \in Types |-> 0]
  /\ lyClose = [i \in Sides |-> 0]
  /\ lyErr = NoErr

\* Layer.build (line 43) or Layer.build_scoped (lines 68-69) is called
LyBuild ==
  /\ lyPhase = "new"
  /\ lyPhase' = "build"
  /\ UNCHANGED <<lyOp, lyT, lyScoped, lySt, lyRel, lyInst, lyMemo, lyCtx, lyMk, lyClose, lyErr>>
  /\ UNCHANGED lyOthers

\* from_resource.acquire, line 181: the memo test
MemoHit(memo, t) == memo[t] # NoInst

\* from_resource.acquire, line 183, once mk has ended: inst = await mk(parent); memo[key] = inst
MkEnd(w, ok) ==
  IF ok
  THEN /\ lyInst' = [lyInst EXCEPT ![w] = w]
       /\ lyMemo' = [lyMemo EXCEPT ![lyT[w]] = w]
       /\ lySt' = [lySt EXCEPT ![w] = "ok"]
  ELSE /\ lySt' = [lySt EXCEPT ![w] = "err"]
       /\ UNCHANGED <<lyInst, lyMemo>>

\* from_resource.acquire (lines 179-184) of occurrence w starts: in A + B the
\* right one after the left one has returned (lines 97-99), in A | B as the
\* tasks of asyncio.gather, the left one first (line 131)
LyAcquire(w) ==
  /\ lyPhase = "build"
  /\ lySt[w] = "none"
  /\ w = 2 => IF lyOp = "+" THEN lySt[1] = "ok" ELSE lySt[1] # "none"
  /\ IF MemoHit(lyMemo, lyT[w])
     THEN /\ lyInst' = [lyInst EXCEPT ![w] = lyMemo[lyT[w]]]
          /\ lySt' = [lySt EXCEPT ![w] = "ok"]
          /\ UNCHANGED <<lyMemo, lyMk>>
     ELSE /\ lyMk' = [lyMk EXCEPT ![lyT[w]] = @ + 1]
          /\ \/ /\ lySt' = [lySt EXCEPT ![w] = "mk"]
                /\ UNCHANGED <<lyInst, lyMemo>>
             \/ \E ok \in BOOLEAN : MkEnd(w, ok)
  /\ UNCHANGED <<lyOp, lyT, lyScoped, lyPhase, lyRel, lyCtx, lyClose, lyErr>>
  /\ UNCHANGED lyOthers

\* occurrence w resumes out of a mk that suspended
LyMkReturn(w) ==
  /\ lySt[w] = "mk"
  /\ \E ok \in BOOLEAN : MkEnd(w, ok)
  /\ UNCHANGED <<lyOp, lyT, lyScoped, lyPhase, lyRel, lyCtx, lyMk, lyClose, lyErr>>
  /\ UNCHANGED lyOthers

\* the occurrences whose acquire returned a Context
Acquired == {w \in Sides : lySt[w] = "ok"}

\* the first of the two results that is an exception (line 142)
FirstErr_Left == [kind |-> "mk", side |-> 1]
FirstErr == [kind |-> "mk", side |-> IF lySt[1] = "err" THEN 1 ELSE 2]

\* the composite acquire goes on after the acquires of its parts:
\* __add__.acq, lines 97-106, and __or__.acq, lines 131-147
LyJoin ==
  /\ lyPhase = "build"
  /\ IF lyOp = "+"
     THEN \/ /\ lySt[1] = "err"
             /\ lyPhase' = "failed"
             /\ lyErr' = FirstErr
             /\ UNCHANGED lyCtx
          \/ /\ lySt[1] = "ok" /\ lySt[2] = "err"
             /\ lyPhase' = "undo"
             /\ UNCHANGED <<lyErr, lyCtx>>
          \/ /\ lySt[1] = "ok" /\ lySt[2] = "ok"
             /\ lyPhase' = "built"
             /\ lyCtx' = CtxOf(2, lyInst)
             /\ UNCHANGED lyErr
     ELSE /\ \A w \in Sides : lySt[w] \in {"ok", "err"}
          /\ IF Acquired = {}
             THEN lyPhase' = "failed" /\ lyErr' = FirstErr /\ UNCHANGED lyCtx
             ELSE IF Acquired # Sides
             THEN lyPhase' = "undo" /\ UNCHANGED <<lyErr, lyCtx>>
             ELSE lyPhase' = "built" /\ lyCtx' = Merged(lyInst) /\ UNCHANGED lyErr
  /\ UNCHANGED <<lyOp, lyT, lyScoped, lySt, lyRel, lyInst, lyMemo, lyMk, lyClose>>
  /\ UNCHANGED lyOthers

\* Layer.teardown (line 74) releases with a new memo; the finalizer of
\* build_scoped (line 70) releases with the memo of the build
LyTeardown ==
  /\ lyPhase = "built"
  /\ lyPhase' = "teardown"
  /\ lyMemo' = IF lyScoped THEN lyMemo ELSE EmptyMemo
  /\ UNCHANGED <<lyOp, lyT, lyScoped, lySt, lyRel, lyInst, lyCtx, lyMk, lyClose, lyErr>>
  /\ UNCHANGED lyOthers

\* when the release of occurrence w starts: on a failed acquire the part that
\* was acquired (lines 103, 136, 139); in the teardown of A + B the right one,
\* then the left one if the right one returned (line 108); in the teardown of
\* A | B both, as the tasks of asyncio.gather (line 149)
ReleaseStarts_AnyOrder(w) ==
  \/ lyPhase = "undo" /\ w \in Acquired
  \/ lyPhase = "teardown"
ReleaseStarts(w) ==
  \/ lyPhase = "undo" /\ w \in Acquired
  \/ /\ lyPhase = "teardown"
     /\ IF lyOp = "+"
        THEN w = 2 \/ lyRel[2] = "ok"
        ELSE w = 1 \/ lyRel[1] # "none"

\* from_resource.release, lines 185-188, of occurrence w
LyRelease(w) ==
  /\ lyRel[w] = "none"
  /\ ReleaseStarts(w)
  /\ LET ctx == IF lyPhase = "undo" THEN CtxOf(w, lyInst) ELSE lyCtx
         inst == ReleaseInst(lyMemo, ctx, lyT[w]) IN
       IF inst = NoInst
       THEN /\ lyRel' = [lyRel EXCEPT ![w] = "err"]
            /\ UNCHANGED lyClose
       ELSE /\ lyClose' = [lyClose EXCEPT ![inst] = @ + 1]
            /\ \E r \in {"close", "ok", "err"} : lyRel' = [lyRel EXCEPT ![w] = r]
  /\ UNCHANGED <<lyOp, lyT, lyScoped, lyPhase, lySt, lyInst, lyMemo, lyCtx, lyMk, lyErr>>
  /\ UNCHANGED lyOthers

\* occurrence w resumes out of a close that suspended
LyCloseReturn(w) ==
  /\ lyRel[w] = "close"
  /\ \E r \in {"ok", "err"} : lyRel' = [lyRel EXCEPT ![w] = r]
  /\ UNCHANGED <<lyOp, lyT, lyScoped, lyPhase, lySt, lyInst, lyMemo, lyCtx, lyMk, lyClose,
                 lyErr>>
  /\ UNCHANGED lyOthers

\* the caller of the releases goes on
LyFinish ==
  /\ \/ \* a failed acquire: lines 102-105 re-raise, or raise what the
        \* teardown raised; lines 136-143 swallow it and raise the first error
        /\ lyPhase = "undo"
        /\ \E w \in Acquired :
             /\ lyRel[w] \in {"ok", "err"}
             /\ lyErr' = IF lyOp = "+" /\ lyRel[w] = "err"
                         THEN [kind |-> "close", side |-> w] ELSE FirstErr
        /\ lyPhase' = "failed"
     \/ \* a teardown: line 108, line 149; Scope.close swallows what the
        \* finalizer raises (scope.py, lines 77-82)
        /\ lyPhase = "teardown"
        /\ \/ /\ \A w \in Sides : lyRel[w] = "ok"
              /\ lyPhase' = "done"
              /\ UNCHANGED lyErr
           \/ \E w \in Sides :
                /\ lyRel[w] = "err"
                /\ lyOp = "+" => (w = 2 \/ lyRel[2] = "ok")
                /\ lyOp = "|" => lyRel[2] # "none"
                /\ lyPhase' = IF lyScoped THEN "done" ELSE "tdfailed"
                /\ lyErr' = IF lyScoped THEN NoErr ELSE [kind |-> "close", side |-> w]
  /\ UNCHANGED <<lyOp, lyT, lyScoped, lySt, lyRel, lyInst, lyMemo, lyCtx, lyMk, lyClose>>
  /\ UNCHANGED lyOthers

(***************************************************************************)
(* Scope (scope.py)                                                        *)
(*                                                                         *)
(* One Scope.  Tasks call add_finalizer, with a new finalizer each time,   *)
(* and close.  A finalizer is an async function that goes through one      *)
(* suspension point and then returns (ok), raises an Exception (err) or    *)
(* raises a BaseException that is not an Exception, such as CancelledError *)
(* (base).  The finalizers are named 1, 2, ... in the order of the         *)
(* add_finalizer calls.                                                    *)
(***************************************************************************)
Fins == 1..MaxFins
Closers == 1..NumClosers
FinOutcomes == {"ok", "err", "base"}

\* Scope.__init__, lines 29-31
ScNew ==
  /\ scFinalizers = <<>>
  /\ scClosed = FALSE
  /\ scNext = 1
  /\ scAtClose = <<>>
  /\ scRuns = [f \in Fins |-> 0]
  /\ scOut = [f \in Fins |-> "none"]
  /\ scLog = <<>>
  /\ scLate = {}
  /\ clPc = [c \in Closers |-> "idle"]
  /\ clFin = [c \in Closers |-> 0]

\* fin() is called: it runs up to its suspension point
FinStart(f) ==
  /\ scRuns' = [scRuns EXCEPT ![f] = @ + 1]
  /\ scLog' = Append(scLog, <<"start", f>>)

\* Scope.add_finalizer, line 54: if self._closed: await fin()
RunsAtOnce_Never(closed) == FALSE
RunsAtOnce(closed) == closed

\* Scope.add_finalizer, lines 54-55
ScAddFinalizer ==
  /\ scNext <= MaxFins
  /\ scNext' = scNext + 1
  /\ IF RunsAtOnce(scClosed)
     THEN /\ FinStart(scNext)
          /\ scLate' = scLate \cup {scNext}
          /\ UNCHANGED scFinalizers
     ELSE /\ scFinalizers' = Append(scFinalizers, scNext)
          /\ UNCHANGED <<scRuns, scLog, scLate>>
  /\ UNCHANGED <<scClosed, scAtClose, scOut, clPc, clFin>>
  /\ UNCHANGED scOthers

\* add_finalizer on a closed scope, line 54: the finalizer ends, and what it
\* raises goes to the caller of add_finalizer
ScAddResume(f) ==
  /\ f \in scLate
  /\ scLate' = scLate \ {f}
  /\ \E out \in FinOutcomes : scOut' = [scOut EXCEPT ![f] = out]
  /\ scLog' = Append(scLog, <<"end", f>>)
  /\ UNCHANGED <<scFinalizers, scClosed, scNext, scAtClose, scRuns, clPc, clFin>>
  /\ UNCHANGED scOthers

\* Scope.close, line 80: fin = self._finalizers.pop()
Pop_First(stk) == [fin |-> Head(stk), rest |-> Tail(stk)]
Pop(stk) == [fin |-> stk[Len(stk)], rest |-> SubSeq(stk, 1, Len(stk) - 1)]

\* Scope.close, lines 81-82: try: await fin() / except Exception: pass
CloseGoesOn_NoExcept(out) == out = "ok"
CloseGoesOn(out) == out \in {"ok", "err"}

\* Scope.close, lines 79-81: the loop, run from its top by closer c, with
\* log the events up to here
CloseLoop(c, log) ==
  IF scFinalizers = <<>>
  THEN /\ clPc' = [clPc EXCEPT ![c] = "closed"]
       /\ clFin' = [clFin EXCEPT ![c] = 0]
       /\ scLog' = log
       /\ UNCHANGED <<scFinalizers, scRuns>>
  ELSE /\ scFinalizers' = Pop(scFinalizers).rest
       /\ clPc' = [clPc EXCEPT ![c] = "drain"]
       /\ clFin' = [clFin EXCEPT ![c] = Pop(scFinalizers).fin]
       /\ scRuns' = [scRuns EXCEPT ![Pop(scFinalizers).fin] = @ + 1]
       /\ scLog' = Append(log, <<"start", Pop(scFinalizers).fin>>)

\* Scope.close, line 77: if self._closed: return
AlreadyClosed_Never(closed) == FALSE
AlreadyClosed(closed) == closed

\* Scope.close entered by closer c, lines 77-81
ScClose(c) ==
  /\ clPc[c] = "idle"
  /\ IF AlreadyClosed(scClosed)
     THEN /\ clPc' = [clPc EXCEPT ![c] = "noop"]
          /\ UNCHANGED <<scFinalizers, scClosed, scAtClose, scRuns, scLog, clFin>>
     ELSE /\ scClosed' = TRUE
          /\ scAtClose' = scFinalizers
          /\ CloseLoop(c, scLog)
  /\ UNCHANGED <<scNext, scOut, scLate>>
  /\ UNCHANGED scOthers

\* Scope.close resumed out of 'await fin()', lines 81-82 and the loop again
ScCloseResume(c) ==
  /\ clPc[c] = "drain"
  /\ \E out \in FinOutcomes :
       /\ scOut' = [scOut EXCEPT ![clFin[c]] = out]
       /\ IF CloseGoesOn(out)
          THEN CloseLoop(c, Append(scLog, <<"end", clFin[c]>>))
          ELSE /\ clPc' = [clPc EXCEPT ![c] = "raised"]
               /\ clFin' = [clFin EXCEPT ![c] = 0]
               /\ scLog' = Append(scLog, <<"end", clFin[c]>>)
               /\ UNCHANGED <<scFinalizers, scRuns>>
  /\ UNCHANGED <<scClosed, scNext, scAtClose, scLate>>
  /\ UNCHANGED scOthers


(***************************************************************************)
(* catch_all, fold, retry (core.py) and Schedule.recurs (schedule.py)      *)
(*                                                                         *)
(* One effect value  e.catch_all(f),  e.fold(on_error, on_success)  or     *)
(* e.retry(Schedule.recurs(n)),  evaluated by the tasks in rcActive.  Each *)
(* evaluation of e goes through a suspension point; for the task t it ends *)
(* with Fail(j) the j-th time, for j up to rcK[t], and with rcLast[t] the  *)
(* time after: a value, a Die, or the Interrupt of a cancel() delivered    *)
(* while e is parked.  The Schedule object belongs to the effect value,    *)
(* so the tasks share its state.                                           *)
(***************************************************************************)
Evals == {1, 2}

\* how the evaluation of e after the failing ones can end
Finals == {Success(v) : v \in Vals} \cup {Die, Interrupt}

\* Schedule.recurs, lines 36-39: step_fn
RecursStep_Negative(state) ==
  IF state < 0 THEN [cont |-> FALSE, state |-> state]
  ELSE [cont |-> TRUE, state |-> state - 1]
RecursStep(state) ==
  IF state <= 0 THEN [cont |-> FALSE, state |-> state]
  ELSE [cont |-> TRUE, state |-> state - 1]

\* 'except Failure as fe' (lines 281, 341, 446): what the handler catches
Caught_All(exit) == exit.kind \in {"fail", "die", "interrupt"}
Caught(exit) == exit.kind = "fail"

RcIdle ==
  /\ rcComb = "idle"
  /\ rcN = 0
  /\ schedState = 0
  /\ rcActive = {}
  /\ rcK = [t \in Evals |-> 0]
  /\ rcLast = [t \in Evals |-> Die]
  /\ rcPc = [t \in Evals |-> "idle"]
  /\ rcAttempts = [t \in Evals |-> 0]
  /\ rcSteps = [t \in Evals |-> 0]
  /\ rcHandler = [t \in Evals |-> 0]
  /\ rcFails = [t \in Evals |-> 0]
  /\ rcInner = [t \in Evals |-> NoExit]
  /\ rcExit = [t \in Evals |-> NoExit]

\* the effect value is made (Schedule.__init__, schedule.py lines 19-22) and
\* the tasks in active are about to evaluate it
RcNew(comb, n, active, k, last) ==
  /\ rcComb = comb
  /\ rcN = n
  /\ schedState = n
  /\ rcActive = active
  /\ rcK = k
  /\ rcLast = last
  /\ rcPc = [t \in Evals |-> "idle"]
  /\ rcAttempts = [t \in Evals |-> 0]
  /\ rcSteps = [t \in Evals |-> 0]
  /\ rcHandler = [t \in Evals |-> 0]
  /\ rcFails = [t \in Evals |-> 0]
  /\ rcInner = [t \in Evals |-> NoExit]
  /\ rcExit = [t \in Evals |-> NoExit]

\* the run function is entered by task t: retry resets the schedule (line
\* 442, Schedule.reset), then e is evaluated up to its suspension point
RcStart(t) ==
  /\ t \in rcActive
  /\ rcPc[t] = "idle"
  /\ rcPc' = [rcPc EXCEPT ![t] = "run"]
  /\ rcAttempts' = [rcAttempts EXCEPT ![t] = 1]
  /\ schedState' = IF rcComb = "retry" THEN rcN ELSE schedState
  /\ UNCHANGED <<rcComb, rcN, rcActive, rcK, rcLast, rcSteps, rcHandler, rcFails, rcInner,
                 rcExit>>
  /\ UNCHANGED rcOthers

\* how the evaluation of e that task t is in ends
InnerExit(t) == IF rcAttempts[t] <= rcK[t] THEN Fail(rcAttempts[t]) ELSE rcLast[t]

\* task t ends with exit
RcEnd(t, exit) ==
  /\ rcPc' = [rcPc EXCEPT ![t] = "done"]
  /\ rcExit' = [rcExit EXCEPT ![t] = exit]

\* Effect.retry, lines 445-452, when the evaluation of e has ended with exit
RetryOn(t, exit) ==
  IF Caught(exit)
  THEN /\ schedState' = RecursStep(schedState).state
       /\ rcSteps' = [rcSteps EXCEPT ![t] = @ + 1]
       /\ IF RecursStep(schedState).cont
          THEN /\ rcAttempts' = [rcAttempts EXCEPT ![t] = @ + 1]
               /\ UNCHANGED <<rcPc, rcExit>>
          ELSE /\ RcEnd(t, exit)
               /\ UNCHANGED rcAttempts
       /\ UNCHANGED rcHandler
  ELSE /\ RcEnd(t, exit)
       /\ UNCHANGED <<schedState, rcSteps, rcAttempts, rcHandler>>

\* Effect.catch_all, lines 280-281: f(fe.error) is called and its effect started
CatchAllOn(t, exit) ==
  IF Caught(exit)
  THEN /\ rcHandler' = [rcHandler EXCEPT ![t] = @ + 1]
       /\ rcPc' = [rcPc EXCEPT ![t] = "handler"]
       /\ UNCHANGED <<schedState, rcSteps, rcAttempts, rcExit>>
  ELSE /\ RcEnd(t, exit)
       /\ UNCHANGED <<schedState, rcSteps, rcAttempts, rcHandler>>

\* Effect.fold, lines 338-342: on_success is called inside the try, so a
\* Failure it raises goes to on_error as well; both are plain functions that
\* return a value or raise
FoldOn(t, exit) ==
  /\ \/ /\ exit.kind = "success"
        /\ \E r \in Outcomes :
             IF Caught(r)
             THEN /\ rcHandler' = [rcHandler EXCEPT ![t] = @ + 1]
                  /\ \E r2 \in Outcomes : RcEnd(t, r2)
             ELSE /\ RcEnd(t, r)
                  /\ UNCHANGED rcHandler
     \/ /\ exit.kind # "success"
        /\ IF Caught(exit)
           THEN /\ rcHandler' = [rcHandler EXCEPT ![t] = @ + 1]
                /\ \E r2 \in Outcomes : RcEnd(t, r2)
           ELSE /\ RcEnd(t, exit)
                /\ UNCHANGED rcHandler
  /\ UNCHANGED <<schedState, rcSteps, rcAttempts>>

\* task t resumes out of 'await self._run(ctx)': the evaluation of e has ended
RcInnerEnd(t) ==
  /\ rcPc[t] = "run"
  /\ rcInner' = [rcInner EXCEPT ![t] = InnerExit(t)]
  /\ rcFails' = [rcFails EXCEPT ![t] = IF InnerExit(t).kind = "fail" THEN @ + 1 ELSE @]
  /\ IF rcComb = "retry" THEN RetryOn(t, InnerExit(t))
     ELSE IF rcComb = "catch_all" THEN CatchAllOn(t, InnerExit(t))
     ELSE FoldOn(t, InnerExit(t))
  /\ UNCHANGED <<rcComb, rcN, rcActive, rcK, rcLast>>
  /\ UNCHANGED rcOthers

\* catch_all, line 281: the effect returned by f ends, with any outcome
RcHandlerEnd(t) ==
  /\ rcPc[t] = "handler"
  /\ \E r \in Outcomes \cup {Interrupt} : RcEnd(t, r)
  /\ UNCHANGED <<rcComb, rcN, schedState, rcActive, rcK, rcLast, rcAttempts, rcSteps,
                 rcHandler, rcFails, rcInner>>
  /\ UNCHANGED rcOthers

(***************************************************************************)
(* Fiber and Runtime.fork (runtime.py)                                     *)
(*                                                                         *)
(* fork makes the task of the fiber, a task for supervisor.on_start, and   *)
(* adds _on_done to the callbacks of the fiber's task.  When a task ends,  *)
(* the loop calls its callbacks in the order they were added, in a later   *)
(* turn: _on_done first, then the wake-ups of the tasks parked on it.  A   *)
(* task that awaits a task that has ended does not park at all.            *)
(***************************************************************************)
Callers == 1..NumCallers
FiberOps == {"await_", "join", "interrupt"}
\* how the effect of the fiber can end when it is not cancelled
FiberOutcomes == {Success(1), Fail(1), Die}
OnDoneCb == 0

\* Cause (core.py, lines 46-68 and 109-128) and Exit (lines 12-24)
NoCause == [kind |-> "none", error |-> 0, annotations |-> <<>>]
CauseFail(e) == [kind |-> "fail", error |-> e, annotations |-> <<>>]
CauseDie == [kind |-> "die", error |-> 0, annotations |-> <<>>]
CauseInterrupt == [kind |-> "interrupt", error |-> 0, annotations |-> <<>>]
ExitSuccess(v) == [success |-> TRUE, value |-> v, cause |-> NoCause]
ExitFailure(c) == [success |-> FALSE, value |-> 0, cause |-> c]
NoExitValue == [success |-> FALSE, value |-> 0, cause |-> NoCause]

\* core.py, lines 386-389: the annotations of the Failure that leaves the
\* annotate calls notes around an effect that raised Failure(e)
RECURSIVE Annotated(_, _)
Annotated(ann, notes) ==
  IF notes = <<>> THEN ann ELSE Annotated(Append(ann, Head(notes)), Tail(notes))

\* core.py, lines 164-165: annotate_cause
AnnotateCause(c, note) == [c EXCEPT !.annotations = Append(@, note)]

\* runtime.py, lines 62-63: the annotations of the Failure replayed on the cause
RECURSIVE Replayed(_, _)
Replayed(c, ann) ==
  IF ann = <<>> THEN c ELSE Replayed(AnnotateCause(c, Head(ann)), Tail(ann))

\* runtime.py, lines 55-70: the Exit await_ builds from what "await self._task"
\* returned or raised, ann being the annotations of a raised Failure
ExitOf(exit, ann) ==
  CASE exit.kind = "success" -> ExitSuccess(exit.val)
    [] exit.kind = "fail" -> ExitFailure(Replayed(CauseFail(exit.val), ann))
    [] exit.kind = "interrupt" -> ExitFailure(CauseInterrupt)
    [] OTHER -> ExitFailure(CauseDie)

RtIdle ==
  /\ fbTask = "none"
  /\ fbExit = NoExit
  /\ fbCancel = FALSE
  /\ fbStatus = "none"
  /\ fbWaiters = <<>>
  /\ fbCallbacks = <<>>
  /\ svTasks = <<>>
  /\ svEvents = <<>>
  /\ cuOp = [c \in Callers |-> "none"]
  /\ cuPc = [c \in Callers |-> "idle"]
  /\ cuRes = [c \in Callers |-> NoExit]
  /\ cuMustCancel = [c \in Callers |-> FALSE]
  /\ fbNotes = <<>>
  /\ cuExit = [c \in Callers |-> NoExitValue]

\* lines 168-175 and 202-203: Runtime.fork
Fork ==
  /\ fbTask = "none"
  /\ fbTask' = "new"
  /\ fbStatus' = "running"
  /\ svTasks' = Append(svTasks, "start")
  /\ \E k \in 0..MaxNotes : fbNotes' = [i \in 1..k |-> i]
  /\ UNCHANGED <<fbExit, fbCancel, fbWaiters, fbCallbacks, svEvents, cuOp, cuPc, cuRes,
                 cuMustCancel, cuExit>>
  /\ UNCHANGED rtOthers

\* the task of the fiber ends with exit: its callbacks are scheduled
FiberEnd(exit) ==
  /\ fbTask' = "done"
  /\ fbExit' = exit
  /\ fbCancel' = FALSE
  /\ fbCallbacks' = <<OnDoneCb>> \o fbWaiters
  /\ fbWaiters' = <<>>
  /\ cuPc' = [c \in Callers |-> IF cuPc[c] = "parked" THEN "woken" ELSE cuPc[c]]

\* lines 168-169: the task of the fiber runs once; a cancelled task sees
\* CancelledError the next time it runs
FiberStep ==
  /\ fbTask \in {"new", "run"}
  /\ IF fbCancel
     THEN FiberEnd(Interrupt)
     ELSE \/ /\ fbTask = "new"
             /\ fbTask' = "run"
             /\ UNCHANGED <<fbExit, fbCancel, fbCallbacks, fbWaiters, cuPc>>
          \/ \E o \in FiberOutcomes : FiberEnd(o)
  /\ UNCHANGED <<fbStatus, svTasks, svEvents, cuOp, cuRes, cuMustCancel, fbNotes, cuExit>>
  /\ UNCHANGED rtOthers

\* the status that _on_done (lines 179-196) and await_ (lines 57-69) give to an exit
StatusOf(exit) ==
  CASE exit.kind = "success" -> "done"
    [] exit.kind = "interrupt" -> "cancelled"
    [] OTHER -> "failed"

Notifications_FailureAlways(exit) == <<"failure", "end">>

\* lines 179-200: the supervisor tasks _on_done creates
Notifications(exit) ==
  IF exit.kind \in {"fail", "die"} THEN <<"failure", "end">> ELSE <<"end">>

\* lines 177-200: the loop calls _on_done
OnDone ==
  /\ fbCallbacks # <<>>
  /\ Head(fbCallbacks) = OnDoneCb
  /\ fbCallbacks' = Tail(fbCallbacks)
  /\ fbStatus' = StatusOf(fbExit)
  /\ svTasks' = svTasks \o Notifications(fbExit)
  /\ UNCHANGED <<fbTask, fbExit, fbCancel, fbWaiters, svEvents, cuOp, cuPc, cuRes,
                 cuMustCancel, fbNotes, cuExit>>
  /\ UNCHANGED rtOthers

\* a task made for a supervisor method runs
SvRun ==
  /\ svTasks # <<>>
  /\ svEvents' = Append(svEvents, Head(svTasks))
  /\ svTasks' = Tail(svTasks)
  /\ UNCHANGED <<fbTask, fbExit, fbCancel, fbStatus, fbWaiters, fbCallbacks, cuOp, cuPc,
                 cuRes, cuMustCancel, fbNotes, cuExit>>
  /\ UNCHANGED rtOthers

\* "await self._task" in caller c comes back with exit: await_ (lines 55-70)
\* sets the status and returns an Exit, join (line 86) returns or raises
Awaited(c, op, exit) ==
  /\ cuPc' = [cuPc EXCEPT ![c] = "done"]
  /\ cuRes' = [cuRes EXCEPT ![c] = exit]
  /\ fbStatus' = IF op = "await_" THEN StatusOf(exit) ELSE fbStatus
  /\ cuExit' = IF op = "await_"
               THEN [cuExit EXCEPT ![c] = ExitOf(exit, Annotated(<<>>, fbNotes))]
               ELSE cuExit

\* lines 56, 86, 101: a task calls await_, join or interrupt on the fiber
Call(c, op) ==
  /\ fbTask # "none"
  /\ cuPc[c] = "idle"
  /\ cuOp' = [cuOp EXCEPT ![c] = op]
  /\ IF op = "interrupt"
     THEN /\ fbCancel' = (fbCancel \/ fbTask # "done")
          /\ cuPc' = [cuPc EXCEPT ![c] = "done"]
          /\ UNCHANGED <<fbStatus, fbWaiters, cuRes, cuExit>>
     ELSE IF fbTask = "done"
     THEN /\ Awaited(c, op, fbExit)
          /\ UNCHANGED <<fbCancel, fbWaiters>>
     ELSE /\ cuPc' = [cuPc EXCEPT ![c] = "parked"]
          /\ fbWaiters' = Append(fbWaiters, c)
          /\ UNCHANGED <<fbCancel, fbStatus, cuRes, cuExit>>
  /\ UNCHANGED <<fbTask, fbExit, fbCallbacks, svTasks, svEvents, cuMustCancel, fbNotes>>
  /\ UNCHANGED rtOthers

\* the loop wakes caller c, parked in await_ or join; a caller cancelled after
\* the fiber's task ended sees CancelledError instead of the outcome
Wake(c) ==
  /\ fbCallbacks # <<>>
  /\ Head(fbCallbacks) = c
  /\ fbCallbacks' = Tail(fbCallbacks)
  /\ Awaited(c, cuOp[c], IF cuMustCancel[c] THEN Interrupt ELSE fbExit)
  /\ cuMustCancel' = [cuMustCancel EXCEPT ![c] = FALSE]
  /\ UNCHANGED <<fbTask, fbExit, fbCancel, fbWaiters, svTasks, svEvents, cuOp, fbNotes>>
  /\ UNCHANGED rtOthers

\* another task calls cancel() on the task of caller c (Task.cancel, tasks.py):
\* the call is passed on to the fiber's task the caller is parked on, and is
\* kept for the caller when that task has ended
CancelCaller(c) ==
  /\ cuPc[c] \in {"parked", "woken"}
  /\ IF cuPc[c] = "parked"
     THEN /\ fbCancel' = TRUE
          /\ UNCHANGED cuMustCancel
     ELSE /\ cuMustCancel' = [cuMustCancel EXCEPT ![c] = TRUE]
          /\ UNCHANGED fbCancel
  /\ UNCHANGED <<fbTask, fbExit, fbStatus, fbWaiters, fbCallbacks, svTasks, svEvents,
                 cuOp, cuPc, cuRes, fbNotes, cuExit>>
  /\ UNCHANGED rtOthers

(***************************************************************************)
(* Effect.ensuring (core.py, lines 360-370)                                *)
(*                                                                         *)
(* One task evaluates e.ensuring(fin): e and fin run in that task, from    *)
(* suspension point to suspension point; another task may cancel it.       *)
(***************************************************************************)
\* how the finalizer can end when it is not cancelled
FinExits == {Success(NoneVal)} \cup {Fail(e) : e \in Vals} \cup {Die}

EnIdle ==
  /\ enPc = "idle"
  /\ enCancel = FALSE
  /\ enIntr = FALSE
  /\ enWork = 0
  /\ enEExit = NoExit
  /\ enFinRuns = 0
  /\ enFinWork = 0
  /\ enFinExit = NoExit
  /\ enExit = NoExit

\* the task, just created, that evaluates e.ensuring(fin)
EnNew ==
  /\ enPc = "new"
  /\ enCancel = FALSE
  /\ enIntr = FALSE
  /\ enWork = 0
  /\ enEExit = NoExit
  /\ enFinRuns = 0
  /\ enFinWork = 0
  /\ enFinExit = NoExit
  /\ enExit = NoExit

\* lines 366-369: "except Exception: pass" around the finalizer
Swallowed(fexit) == fexit.kind \in {"fail", "die"}

\* lines 363-369: the finalizer has ended with fexit after e ended with eexit
EnFinish(eexit, fexit) ==
  /\ enPc' = "done"
  /\ enFinExit' = fexit
  /\ enExit' = IF fexit.kind = "success" \/ Swallowed(fexit) THEN eexit ELSE fexit

\* lines 364-367: e has ended with eexit; the finally clause starts the
\* finalizer, which parks or ends
EnFinally(eexit) ==
  /\ enEExit' = eexit
  /\ enFinRuns' = enFinRuns + 1
  /\ \/ /\ enPc' = "fin"
        /\ enFinWork' = enFinWork + 1
        /\ UNCHANGED <<enFinExit, enExit>>
     \/ /\ \E fexit \in FinExits : EnFinish(eexit, fexit)
        /\ UNCHANGED enFinWork

\* lines 362-363: the task runs e once; a cancelled task sees CancelledError
\* where it is parked, and never starts e when it has not run yet
EnStep ==
  /\ enPc \in {"new", "e"}
  /\ enCancel' = FALSE
  /\ IF enCancel
     THEN IF enPc = "new"
          THEN /\ enPc' = "done"
               /\ enExit' = Interrupt
               /\ UNCHANGED <<enWork, enEExit, enFinRuns, enFinWork, enFinExit>>
          ELSE /\ EnFinally(Interrupt)
               /\ UNCHANGED enWork
     ELSE \/ /\ enWork < MaxSteps
             /\ enPc' = "e"
             /\ enWork' = enWork + 1
             /\ UNCHANGED <<enEExit, enFinRuns, enFinWork, enFinExit, enExit>>
          \/ /\ \E eexit \in Outcomes : EnFinally(eexit)
             /\ enWork' = enWork + 1
  /\ UNCHANGED enIntr
  /\ UNCHANGED enOthers

\* lines 366-369: the task runs the finalizer once more; it parks again or ends
EnFinStep ==
  /\ enPc = "fin"
  /\ enCancel' = FALSE
  /\ IF enCancel
     THEN /\ EnFinish(enEExit, Interrupt)
          /\ UNCHANGED enFinWork
     ELSE \/ /\ enFinWork <= MaxSteps
             /\ enFinWork' = enFinWork + 1
             /\ UNCHANGED <<enPc, enFinExit, enExit>>
          \/ /\ \E fexit \in FinExits : EnFinish(enEExit, fexit)
             /\ UNCHANGED enFinWork
  /\ UNCHANGED <<enIntr, enWork, enEExit, enFinRuns>>
  /\ UNCHANGED enOthers

\* another task calls cancel() on the task
EnInterrupt ==
  /\ enPc \in {"new", "e", "fin"}
  /\ ~enIntr
  /\ enIntr' = TRUE
  /\ enCancel' = TRUE
  /\ UNCHANGED <<enPc, enWork, enEExit, enFinRuns, enFinWork, enFinExit, enExit>>
  /\ UNCHANGED enOthers

(***************************************************************************)
(* Hub and Subscription (hub.py)                                           *)
(*                                                                         *)
(* The lock of the hub and the condition of a queue are never held across  *)
(* a suspension point other than Condition.wait, so taking them never      *)
(* parks: subscribe, Subscription.close and Hub.close run in one step, and *)
(* publish parks only in the send to a full queue.                         *)
(***************************************************************************)
Subs == 1..NumSubs
Pubs == 1..NumPubs
\* the maxsize given to subscribe: unbounded or one item
HubSizes == {0, 1}

\* list(self._subs): the elements of the set in some order
Orders(S) ==
  {o \in [1..Cardinality(S) -> S] : \A i, j \in 1..Cardinality(S) : o[i] = o[j] => i = j}

HubNew ==
  /\ hubClosed = FALSE
  /\ hubSubs = {}
  /\ hubReclosed = FALSE
  /\ hubRefused = FALSE
  /\ sbSt = [s \in Subs |-> "none"]
  /\ sbMax = [s \in Subs |-> 0]
  /\ sbBuf = [s \in Subs |-> <<>>]
  /\ sbQClosed = [s \in Subs |-> FALSE]
  /\ pbPc = [p \in Pubs |-> "idle"]
  /\ pbSnap = [p \in Pubs |-> <<>>]
  /\ pbMissed = [p \in Pubs |-> {}]

Refuses_Never(closed) == FALSE

\* lines 41 and 55: "if self._closed: raise HubClosed"
Refuses(closed) == closed

\* lines 39-45: Hub.subscribe; the subscriptions are made in the order of Subs
Subscribe(s, maxsize) ==
  /\ sbSt[s] = "none"
  /\ \A t \in Subs : t < s => sbSt[t] # "none"
  /\ IF Refuses(hubClosed)
     THEN /\ hubRefused' = TRUE
          /\ UNCHANGED <<hubSubs, sbSt, sbMax>>
     ELSE /\ hubSubs' = hubSubs \cup {s}
          /\ sbSt' = [sbSt EXCEPT ![s] = "open"]
          /\ sbMax' = [sbMax EXCEPT ![s] = maxsize]
          /\ UNCHANGED hubRefused
  /\ UNCHANGED <<hubClosed, hubReclosed, sbBuf, sbQClosed, pbPc, pbSnap, pbMissed>>
  /\ UNCHANGED hubOthers

\* lines 22-26 and 47-51: Subscription.close and Hub._unsubscribe
SbClose(s) ==
  /\ sbSt[s] = "open"
  /\ sbSt' = [sbSt EXCEPT ![s] = "closed"]
  /\ hubSubs' = hubSubs \ {s}
  /\ sbQClosed' = [sbQClosed EXCEPT ![s] = TRUE]
  /\ UNCHANGED <<hubClosed, hubReclosed, hubRefused, sbMax, sbBuf, pbPc, pbSnap,
                 pbMissed>>
  /\ UNCHANGED hubOthers

\* whether Queue.receive (queue.py, lines 40-49) on the queue of subscriber s
\* raises QueueClosed: the queue is closed and drained
ReceiveFails(s) == sbQClosed[s] /\ sbBuf[s] = <<>>

\* Queue.receive by the holder of subscription s: it takes the first item,
\* or raises QueueClosed, which changes nothing
SbReceive(s) ==
  /\ sbSt[s] # "none"
  /\ sbBuf[s] # <<>> \/ ReceiveFails(s)
  /\ sbBuf' = [sbBuf EXCEPT ![s] = IF ReceiveFails(s) THEN @ ELSE Tail(@)]
  /\ UNCHANGED <<hubClosed, hubSubs, hubReclosed, hubRefused, sbSt, sbMax, sbQClosed, pbPc,
                 pbSnap, pbMissed>>
  /\ UNCHANGED hubOthers

\* whether Queue.send (queue.py, line 35) has to wait on queue q holding buf
Full(q, buf) == sbMax[q] > 0 /\ Len(buf) >= sbMax[q]

\* the elements of a list
Range(f) == {f[i] : i \in 1..Len(f)}

\* lines 58-60: "for q in subs: await q.send(item)" over the list rest; send
\* raises QueueClosed on a closed queue and parks on a full one
RECURSIVE SendAll(_, _, _)
SendAll(bufs, rest, item) ==
  IF rest = <<>> THEN [bufs |-> bufs, rest |-> <<>>, pc |-> "done", missed |-> {}]
  ELSE IF sbQClosed[Head(rest)]
  THEN [bufs |-> bufs, rest |-> <<>>, pc |-> "raised", missed |-> Range(rest)]
  ELSE IF Full(Head(rest), bufs[Head(rest)])
  THEN [bufs |-> bufs, rest |-> rest, pc |-> "parked", missed |-> {}]
  ELSE SendAll([bufs EXCEPT ![Head(rest)] = Append(@, item)], Tail(rest), item)

\* lines 53-60: Hub.publish by publisher p, whose item is p
Publish(p) ==
  /\ pbPc[p] = "idle"
  /\ IF Refuses(hubClosed)
     THEN /\ pbPc' = [pbPc EXCEPT ![p] = "refused"]
          /\ UNCHANGED <<sbBuf, pbSnap, pbMissed>>
     ELSE \E snap \in Orders(hubSubs) :
            LET r == SendAll(sbBuf, snap, p) IN
              /\ sbBuf' = r.bufs
              /\ pbSnap' = [pbSnap EXCEPT ![p] = r.rest]
              /\ pbPc' = [pbPc EXCEPT ![p] = r.pc]
              /\ pbMissed' = [pbMissed EXCEPT ![p] = r.missed]
  /\ UNCHANGED <<hubClosed, hubSubs, hubReclosed, hubRefused, sbSt, sbMax, sbQClosed>>
  /\ UNCHANGED hubOthers

\* queue.py, lines 35-38: the send publisher p is parked in goes on once the
\* queue has room, without looking at _closed again; then the loop goes on
PublishResume(p) ==
  /\ pbPc[p] = "parked"
  /\ ~Full(Head(pbSnap[p]), sbBuf[Head(pbSnap[p])])
  /\ LET q == Head(pbSnap[p])
         r == SendAll([sbBuf EXCEPT ![q] = Append(@, p)], Tail(pbSnap[p]), p) IN
       /\ sbBuf' = r.bufs
       /\ pbSnap' = [pbSnap EXCEPT ![p] = r.rest]
       /\ pbPc' = [pbPc EXCEPT ![p] = r.pc]
       /\ pbMissed' = [pbMissed EXCEPT ![p] = r.missed]
  /\ UNCHANGED <<hubClosed, hubSubs, hubReclosed, hubRefused, sbSt, sbMax, sbQClosed>>
  /\ UNCHANGED hubOthers

\* lines 62-71: Hub.close
HubClose ==
  /\ IF hubClosed
     THEN /\ hubReclosed' = TRUE
          /\ UNCHANGED <<hubClosed, hubSubs, sbQClosed>>
     ELSE /\ hubClosed' = TRUE
          /\ hubSubs' = {}
          /\ sbQClosed' = [s \in Subs |-> sbQClosed[s] \/ s \in hubSubs]
          /\ UNCHANGED hubReclosed
  /\ UNCHANGED <<hubRefused, sbSt, sbMax, sbBuf, pbPc, pbSnap, pbMissed>>
  /\ UNCHANGED hubOthers

(***************************************************************************)
(* Stream and StreamE (stream.py): a source, a chain of via stages and a   *)
(* consumer                                                                *)
(*                                                                         *)
(* Queue k is the in_q of stage k; stage k sends to queue k + 1, and the   *)
(* last queue is the out of run_collect or of StreamE.run.  The awaited    *)
(* stage function suspends once, so that a worker takes one step up to the *)
(* function and one from its result to the next one.                       *)
(***************************************************************************)
\* the chain has two via stages
Stages == {1, 2}
NumStages == Cardinality(Stages)
Workers == 1..MaxWorkers
Qs == 1..(NumStages + 1)
LastQ == NumStages + 1
\* the out_capacity of a stage: unbounded or one item
StreamCaps == {0, 1}
\* the exception Queue.send raises on a closed queue
QueueClosedExc == 0
NoRes == [kind |-> "none"]

\* the items of the source are 1..StreamLen; what stage k makes of x
StageFunc(k, x) == 2 * x + k

\* the image of x through the stages 1..k
RECURSIVE Through(_, _)
Through(k, x) == IF k = 0 THEN x ELSE StageFunc(k, Through(k - 1, x))

StNew(kind) ==
  /\ stKind = kind
  /\ stW \in [Stages -> Workers]
  /\ stCap \in [Stages -> StreamCaps]
  /\ stQ = [k \in Qs |-> <<>>]
  /\ stQClosed = [k \in Qs |-> FALSE]
  /\ stActive = stW
  /\ stFlag = [k \in Stages |-> FALSE]
  /\ stErr = <<>>
  /\ stRaised = <<>>
  /\ srcPc = "run"
  /\ srcI = 1
  /\ wkRecv = stW
  /\ wkFunc = [k \in Stages |-> {}]
  /\ wkParked = [k \in Stages |-> {}]
  /\ colPc = IF kind = "Stream" THEN "recv" ELSE "off"
  /\ stOut = <<>>
  /\ skPc = IF kind = "StreamE" THEN "wait" ELSE "off"
  /\ skReady = IF kind = "StreamE" THEN <<"val", "err">> ELSE <<>>
  /\ skParked = {}
  /\ tvRes = NoRes
  /\ teRes = NoRes
  /\ skAcc = 0
  /\ skRes = NoRes

StIdle ==
  /\ stKind = "none"
  /\ stW = [k \in Stages |-> 0]
  /\ stCap = [k \in Stages |-> 0]
  /\ stQ = [k \in Qs |-> <<>>]
  /\ stQClosed = [k \in Qs |-> FALSE]
  /\ stActive = stW
  /\ stFlag = [k \in Stages |-> FALSE]
  /\ stErr = <<>>
  /\ stRaised = <<>>
  /\ srcPc = "off"
  /\ srcI = 1
  /\ wkRecv = [k \in Stages |-> 0]
  /\ wkFunc = [k \in Stages |-> {}]
  /\ wkParked = [k \in Stages |-> {}]
  /\ colPc = "off"
  /\ stOut = <<>>
  /\ skPc = "off"
  /\ skReady = <<>>
  /\ skParked = {}
  /\ tvRes = NoRes
  /\ teRes = NoRes
  /\ skAcc = 0
  /\ skRes = NoRes

\* Queue.send (queue.py, line 35): whether a send to queue k holding buf waits
QFull(k, buf) == k <= NumStages /\ stCap[k] > 0 /\ Len(buf) >= stCap[k]

Enqueue_Front(buf, y) == <<y>> \o buf

\* queue.py, line 37: self._buf.append(item)
Enqueue(buf, y) == Append(buf, y)

\* the exception ex goes to the error queue of a StreamE (lines 213, 250)
Pushed(err, ex) == IF stKind = "StreamE" THEN Append(err, ex) ELSE err

\* queue.py, lines 29 and 38: notify_all wakes the tasks of sink_fold parked in
\* a receive, the one on the error queue first when both queues were touched
Woken(pushed, touched) ==
  (IF pushed /\ "err" \in skParked THEN <<"err">> ELSE <<>>)
    \o (IF touched /\ "val" \in skParked THEN <<"val">> ELSE <<>>)

SkNotify(pushed, touched) ==
  /\ skReady' = skReady \o Woken(pushed, touched)
  /\ skParked' = skParked \ Range(Woken(pushed, touched))

\* the first exception pushed is kept
Noted(ex) == IF stRaised = <<>> THEN <<ex>> ELSE stRaised

\* lines 36-40 and 209-215: the loop of from_iterable from item i on, up to
\* the send that waits or to the end; a send on the closed queue raises
RECURSIVE SrcGo(_, _, _)
SrcGo(i, buf, closed) ==
  IF i > StreamLen THEN [pc |-> "done", i |-> i, buf |-> buf, raised |-> FALSE]
  ELSE IF closed THEN [pc |-> "done", i |-> i, buf |-> buf, raised |-> TRUE]
  ELSE IF QFull(1, buf) THEN [pc |-> "parked", i |-> i, buf |-> buf, raised |-> FALSE]
  ELSE SrcGo(i + 1, Enqueue(buf, i), closed)

SrcCloses_Never(pc) == FALSE

\* lines 39-40 and 214-215: "finally: await out.close()" when the loop is left
SrcCloses(pc) == pc = "done"

SrcEnd(r) ==
  /\ srcPc' = r.pc
  /\ srcI' = r.i
  /\ stQ' = [stQ EXCEPT ![1] = r.buf]
  /\ stQClosed' = [stQClosed EXCEPT ![1] = @ \/ SrcCloses(r.pc)]
  /\ stErr' = IF r.raised THEN Pushed(stErr, QueueClosedExc) ELSE stErr
  /\ stRaised' = IF r.raised /\ stKind = "StreamE" THEN Noted(QueueClosedExc) ELSE stRaised
  /\ SkNotify(r.raised /\ stKind = "StreamE", FALSE)
  /\ UNCHANGED <<stKind, stW, stCap, stActive, stFlag, wkRecv, wkFunc, wkParked, colPc, stOut,
                 skPc, tvRes, teRes, skAcc, skRes>>
  /\ UNCHANGED stOthers

\* lines 33-42 and 206-217: the task of from_iterable starts
SrcRun ==
  /\ srcPc = "run"
  /\ SrcEnd(SrcGo(1, stQ[1], stQClosed[1]))

\* queue.py, lines 35-38: the parked send of the source goes on once the queue
\* has room, and the loop goes on
SrcResume ==
  /\ srcPc = "parked"
  /\ ~QFull(1, stQ[1])
  /\ SrcEnd(SrcGo(srcI + 1, Enqueue(stQ[1], srcI), stQClosed[1]))

LastWorker_Any(n) == TRUE

\* lines 73 and 243: if active["n"] == 0
LastWorker(n) == n = 0

\* lines 67-75 and 238-245: a worker of stage k at "await in_q.receive()" with
\* the queues q: it takes an item and calls the function, or leaves on the
\* closed and drained queue, or waits
WkRecvFrom(k, q, closed) ==
  IF q[k] # <<>>
  THEN [pc |-> "func", x |-> Head(q[k]), q |-> [q EXCEPT ![k] = Tail(@)], closed |-> closed,
        active |-> stActive, flag |-> stFlag]
  ELSE IF closed[k]
  THEN [pc |-> "done", x |-> 0, q |-> q,
        closed |-> IF LastWorker(stActive[k] - 1) /\ ~stFlag[k]
                   THEN [closed EXCEPT ![k + 1] = TRUE] ELSE closed,
        active |-> [stActive EXCEPT ![k] = @ - 1],
        flag |-> [stFlag EXCEPT ![k] = @ \/ LastWorker(stActive[k] - 1)]]
  ELSE [pc |-> "recv", x |-> 0, q |-> q, closed |-> closed, active |-> stActive,
        flag |-> stFlag]

\* a worker of stage k leaves the position from, where it held v, for r
WkEnd(k, from, v, r, pushed) ==
  /\ wkRecv' = [wkRecv EXCEPT ![k] = @ - (IF from = "recv" THEN 1 ELSE 0)
                                       + (IF r.pc = "recv" THEN 1 ELSE 0)]
  /\ wkFunc' = [wkFunc EXCEPT ![k] = (@ \ (IF from = "func" THEN {v} ELSE {}))
                                       \cup (IF r.pc = "func" THEN {r.x} ELSE {})]
  /\ wkParked' = [wkParked EXCEPT ![k] = (@ \ (IF from = "parked" THEN {v} ELSE {}))
                                           \cup (IF r.pc = "parked" THEN {r.x} ELSE {})]
  /\ stQ' = r.q
  /\ stQClosed' = r.closed
  /\ stActive' = r.active
  /\ stFlag' = r.flag
  /\ SkNotify(pushed, r.q[LastQ] # stQ[LastQ] \/ r.closed[LastQ] # stQClosed[LastQ])
  /\ UNCHANGED <<stKind, stW, stCap, srcPc, srcI, colPc, stOut, skPc, tvRes, teRes, skAcc,
                 skRes>>
  /\ UNCHANGED stOthers

\* lines 69-75 and 240-245: the receive of a worker of stage k returns or raises
WkRecv(k) ==
  /\ wkRecv[k] > 0
  /\ stQ[k] # <<>> \/ stQClosed[k]
  /\ WkEnd(k, "recv", 0, WkRecvFrom(k, stQ, stQClosed), FALSE)
  /\ UNCHANGED <<stErr, stRaised>>

\* lines 76-88 and 246-255: the stage function of the worker of stage k that
\* holds x ends.  If it raised, the worker closes both queues and leaves; else
\* it sends the result, which raises on the closed queue or waits on the full
\* one, and goes on to the next receive
WkFunc(k, x) ==
  /\ x \in wkFunc[k]
  /\ \E raises \in BOOLEAN :
       IF raises
       THEN /\ stErr' = Pushed(stErr, x)
            /\ stRaised' = Noted(x)
            /\ WkEnd(k, "func", x,
                     [pc |-> "done", x |-> 0, q |-> stQ,
                      closed |-> [stQClosed EXCEPT ![k] = TRUE, ![k + 1] = TRUE],
                      active |-> stActive, flag |-> [stFlag EXCEPT ![k] = TRUE]],
                     stKind = "StreamE")
       ELSE /\ UNCHANGED <<stErr, stRaised>>
            /\ LET y == StageFunc(k, x) IN
                 IF stQClosed[k + 1]
                 THEN WkEnd(k, "func", x,
                            [pc |-> "done", x |-> 0, q |-> stQ,
                             closed |-> [stQClosed EXCEPT ![k] = TRUE],
                             active |-> stActive, flag |-> stFlag], FALSE)
                 ELSE IF QFull(k + 1, stQ[k + 1])
                 THEN WkEnd(k, "func", x,
                            [pc |-> "parked", x |-> y, q |-> stQ, closed |-> stQClosed,
                             active |-> stActive, flag |-> stFlag], FALSE)
                 ELSE WkEnd(k, "func", x,
                            WkRecvFrom(k, [stQ EXCEPT ![k + 1] = Enqueue(@, y)], stQClosed),
                            FALSE)

\* queue.py, lines 35-38: the parked send of y by a worker of stage k goes on
\* once the queue has room; the worker goes on to the next receive
WkResume(k, y) ==
  /\ y \in wkParked[k]
  /\ ~QFull(k + 1, stQ[k + 1])
  /\ WkEnd(k, "parked", y, WkRecvFrom(k, [stQ EXCEPT ![k + 1] = Enqueue(@, y)], stQClosed),
           FALSE)
  /\ UNCHANGED <<stErr, stRaised>>

\* lines 104-118: the loop of run_collect takes what the queue holds, and
\* ends on the closed and drained queue
ColRecv ==
  /\ colPc = "recv"
  /\ stQ[LastQ] # <<>> \/ stQClosed[LastQ]
  /\ stOut' = stOut \o stQ[LastQ]
  /\ stQ' = [stQ EXCEPT ![LastQ] = <<>>]
  /\ colPc' = IF stQClosed[LastQ] THEN "done" ELSE "recv"
  /\ UNCHANGED <<stKind, stW, stCap, stQClosed, stActive, stFlag, stErr, stRaised, srcPc,
                 srcI, wkRecv, wkFunc, wkParked, skPc, skReady, skParked, tvRes, teRes, skAcc,
                 skRes>>
  /\ UNCHANGED stOthers

\* lines 496-500: recv_safe on a queue holding buf
RecvSafe(buf, closed) ==
  IF buf # <<>> THEN [kind |-> "value", v |-> Head(buf)]
  ELSE IF closed THEN [kind |-> "closed"]
  ELSE NoRes

\* a step of the task t of sink_fold with the result res: it ends, which
\* schedules the callback of asyncio.wait, or it parks in the receive
SkTask(t, res) ==
  /\ skReady' = IF res = NoRes THEN Tail(skReady) ELSE Append(Tail(skReady), "cb")
  /\ skParked' = IF res = NoRes THEN skParked \cup {t} ELSE skParked

\* lines 503 and 496-500: a step of the task t_val of sink_fold
SkRecvVal ==
  /\ skPc = "wait"
  /\ skReady # <<>> /\ Head(skReady) = "val"
  /\ tvRes' = RecvSafe(stQ[LastQ], stQClosed[LastQ])
  /\ stQ' = [stQ EXCEPT ![LastQ] = IF @ = <<>> THEN @ ELSE Tail(@)]
  /\ SkTask("val", RecvSafe(stQ[LastQ], stQClosed[LastQ]))
  /\ UNCHANGED <<stKind, stW, stCap, stQClosed, stActive, stFlag, stErr, stRaised, srcPc,
                 srcI, wkRecv, wkFunc, wkParked, colPc, stOut, skPc, teRes, skAcc, skRes>>
  /\ UNCHANGED stOthers

\* lines 504 and 496-500: a step of the task t_err of sink_fold; the error
\* queue of StreamE.run is never closed
SkRecvErr ==
  /\ skPc = "wait"
  /\ skReady # <<>> /\ Head(skReady) = "err"
  /\ teRes' = RecvSafe(stErr, FALSE)
  /\ stErr' = IF stErr = <<>> THEN stErr ELSE Tail(stErr)
  /\ SkTask("err", RecvSafe(stErr, FALSE))
  /\ UNCHANGED <<stKind, stW, stCap, stQ, stQClosed, stActive, stFlag, stRaised, srcPc, srcI,
                 wkRecv, wkFunc, wkParked, colPc, stOut, skPc, tvRes, skAcc, skRes>>
  /\ UNCHANGED stOthers

\* line 505: the callback of asyncio.wait for a task that ended; the first one
\* makes sink_fold runnable
SkCallback ==
  /\ skPc = "wait"
  /\ skReady # <<>> /\ Head(skReady) = "cb"
  /\ skReady' = IF "sink" \in Range(skReady) THEN Tail(skReady)
                ELSE Append(Tail(skReady), "sink")
  /\ UNCHANGED <<stKind, stW, stCap, stQ, stQClosed, stActive, stFlag, stErr, stRaised, srcPc,
                 srcI, wkRecv, wkFunc, wkParked, colPc, stOut, skPc, skParked, tvRes, teRes,
                 skAcc, skRes>>
  /\ UNCHANGED stOthers

ErrFirst_ValFirst(te, tv) == te # NoRes /\ tv = NoRes

\* line 515: d = t_err if t_err in done else t_val
ErrFirst(te, tv) == te # NoRes

\* lines 505-546: asyncio.wait returns in sink_fold; the pending task is
\* cancelled, which takes nothing from its queue, and the result of d
\* decides: raise, return, or fold and start the next round
SkWake ==
  /\ skPc = "wait"
  /\ skReady # <<>> /\ Head(skReady) = "sink"
  /\ skParked' = {}
  /\ IF ErrFirst(teRes, tvRes)
     THEN /\ skRes' = [kind |-> "raised", v |-> teRes.v]
          /\ skPc' = "done"
          /\ skReady' = <<>>
          /\ UNCHANGED <<tvRes, teRes, skAcc>>
     ELSE IF tvRes.kind = "closed"
     THEN /\ skRes' = [kind |-> "returned", v |-> skAcc]
          /\ skPc' = "done"
          /\ skReady' = <<>>
          /\ UNCHANGED <<tvRes, teRes, skAcc>>
     ELSE /\ skAcc' = skAcc + tvRes.v
          /\ tvRes' = NoRes
          /\ teRes' = NoRes
          /\ skReady' = <<"val", "err">>
          /\ UNCHANGED <<skRes, skPc>>
  /\ UNCHANGED <<stKind, stW, stCap, stQ, stQClosed, stActive, stFlag, stErr, stRaised, srcPc,
                 srcI, wkRecv, wkFunc, wkParked, colPc, stOut>>
  /\ UNCHANGED stOthers

(***************************************************************************)
(* Stream.merge and StreamE.merge (stream.py): two upstream streams, the   *)
(* two pumps, and the consumer of out                                      *)
(*                                                                         *)
(* Side s feeds the values MgItem(s, 1), MgItem(s, 2), ... into its queue  *)
(* and closes it when done; a pump runs up to its next suspension point.   *)
(***************************************************************************)
MgSides == {1, 2}

\* the i-th value of side s; the values of the two sides differ
MgItem(s, i) == StreamLen * (s - 1) + i

\* the side a value comes from
SideOf(v) == IF v <= StreamLen THEN 1 ELSE 2

MgNew ==
  /\ mgCap \in StreamCaps
  /\ mgFed = [s \in MgSides |-> 0]
  /\ mgQ = [s \in MgSides |-> <<>>]
  /\ mgQClosed = [s \in MgSides |-> FALSE]
  /\ pmPc = [s \in MgSides |-> "recv"]
  /\ pmX = [s \in MgSides |-> 0]
  /\ mgOutQ = <<>>
  /\ mgOutClosed = FALSE
  /\ mgColPc = "recv"
  /\ mgOut = <<>>

MgIdle ==
  /\ mgCap = 0
  /\ mgFed = [s \in MgSides |-> 0]
  /\ mgQ = [s \in MgSides |-> <<>>]
  /\ mgQClosed = [s \in MgSides |-> FALSE]
  /\ pmPc = [s \in MgSides |-> "off"]
  /\ pmX = [s \in MgSides |-> 0]
  /\ mgOutQ = <<>>
  /\ mgOutClosed = FALSE
  /\ mgColPc = "off"
  /\ mgOut = <<>>

\* lines 144-145 and 373-374: the upstream of side s sends its next value to
\* its queue, which is unbounded
MgFeed(s) ==
  /\ ~mgQClosed[s]
  /\ mgFed[s] < StreamLen
  /\ mgFed' = [mgFed EXCEPT ![s] = @ + 1]
  /\ mgQ' = [mgQ EXCEPT ![s] = Append(@, MgItem(s, mgFed[s] + 1))]
  /\ UNCHANGED <<mgCap, mgQClosed, pmPc, pmX, mgOutQ, mgOutClosed, mgColPc, mgOut>>
  /\ UNCHANGED mgOthers

\* the upstream of side s has sent all its values and closes its queue
MgFeedClose(s) ==
  /\ ~mgQClosed[s]
  /\ mgFed[s] = StreamLen
  /\ mgQClosed' = [mgQClosed EXCEPT ![s] = TRUE]
  /\ UNCHANGED <<mgCap, mgFed, mgQ, pmPc, pmX, mgOutQ, mgOutClosed, mgColPc, mgOut>>
  /\ UNCHANGED mgOthers

\* Queue.send (queue.py, line 35): whether a send to out holding buf waits
MgFull(buf) == mgCap > 0 /\ Len(buf) >= mgCap

\* lines 147-156 and 375-384: the loop of pump from "await src.receive()" on,
\* with src holding buf and out holding obuf, up to the next suspension point
RECURSIVE PumpGo(_, _, _)
PumpGo(buf, closed, obuf) ==
  IF buf = <<>>
  THEN [pc |-> IF closed THEN "done" ELSE "recv", x |-> 0, buf |-> buf, obuf |-> obuf]
  ELSE IF mgOutClosed THEN [pc |-> "done", x |-> 0, buf |-> Tail(buf), obuf |-> obuf]
  ELSE IF MgFull(obuf) THEN [pc |-> "parked", x |-> Head(buf), buf |-> Tail(buf), obuf |-> obuf]
  ELSE PumpGo(Tail(buf), closed, Append(obuf, Head(buf)))

PumpEnd(s, r) ==
  /\ pmPc' = [pmPc EXCEPT ![s] = r.pc]
  /\ pmX' = [pmX EXCEPT ![s] = r.x]
  /\ mgQ' = [mgQ EXCEPT ![s] = r.buf]
  /\ mgOutQ' = r.obuf
  /\ UNCHANGED <<mgCap, mgFed, mgQClosed, mgOutClosed, mgColPc, mgOut>>
  /\ UNCHANGED mgOthers

\* lines 149-152 and 377-380: the receive of the pump of side s returns or raises
PumpRecv(s) ==
  /\ pmPc[s] = "recv"
  /\ mgQ[s] # <<>> \/ mgQClosed[s]
  /\ PumpEnd(s, PumpGo(mgQ[s], mgQClosed[s], mgOutQ))

\* queue.py, lines 35-38: the parked send of the pump of side s goes on once
\* out has room, and the loop goes on
PumpResume(s) ==
  /\ pmPc[s] = "parked"
  /\ ~MgFull(mgOutQ)
  /\ PumpEnd(s, PumpGo(mgQ[s], mgQClosed[s], Append(mgOutQ, pmX[s])))

Gathered_Any(pcs) == \E s \in MgSides : pcs[s] = "done"

\* lines 160 and 385: await asyncio.gather(t1, t2)
Gathered(pcs) == \A s \in MgSides : pcs[s] = "done"

\* lines 160-161 and 385-386: gather returns and merge closes out
MgClose ==
  /\ ~mgOutClosed
  /\ Gathered(pmPc)
  /\ mgOutClosed' = TRUE
  /\ UNCHANGED <<mgCap, mgFed, mgQ, mgQClosed, pmPc, pmX, mgOutQ, mgColPc, mgOut>>
  /\ UNCHANGED mgOthers

\* lines 104-118: the loop of run_collect takes what out holds, and ends on
\* the closed and drained queue
MgCollect ==
  /\ mgColPc = "recv"
  /\ mgOutQ # <<>> \/ mgOutClosed
  /\ mgOut' = mgOut \o mgOutQ
  /\ mgOutQ' = <<>>
  /\ mgColPc' = IF mgOutClosed THEN "done" ELSE "recv"
  /\ UNCHANGED <<mgCap, mgFed, mgQ, mgQClosed, pmPc, pmX, mgOutClosed>>
  /\ UNCHANGED mgOthers

(***************************************************************************)
(* Channel (channel.py)                                                    *)
(*                                                                         *)
(* One Channel over an asyncio.Queue.  put() parks the task while the      *)
(* queue is full and get() while it is empty; put_nowait() wakes the       *)
(* getter parked longest and get_nowait() the putter parked longest; a     *)
(* task woken tests the queue again when it runs.  The items sent are      *)
(* numbered 1, 2, ... in the order they enter the queue.                   *)
(***************************************************************************)
\* Channel.__init__, line 32
ChNew(maxsize) ==
  /\ chMax = maxsize
  /\ chBuf = <<>>
  /\ chClosed = FALSE
  /\ chPutters = <<>>
  /\ chGetters = <<>>
  /\ chS = [p \in Producers |-> "idle"]
  /\ chR = [c \in Consumers |-> "idle"]
  /\ chSent = 0
  /\ chGot = <<>>

\* the channel component when a specification does not use it
ChIdle == ChNew(0)

\* asyncio.Queue.full()
ChFull == chMax > 0 /\ Len(chBuf) >= chMax

\* asyncio.Queue._wakeup_next(waiters)
WakeupNext(waiters, pc) ==
  IF waiters = <<>> THEN pc ELSE [pc EXCEPT ![Head(waiters)] = "woken"]

AfterWakeup(waiters) == IF waiters = <<>> THEN <<>> ELSE Tail(waiters)

\* Channel.send, line 44: the closed test
ChSendRefused(closed) == closed

\* Channel.send, line 45: await self._q.put(a), run from the top of its loop
ChPut(p) ==
  IF ChFull
  THEN /\ chS' = [chS EXCEPT ![p] = "waiting"]
       /\ chPutters' = Append(chPutters, p)
       /\ UNCHANGED <<chBuf, chSent, chR, chGetters>>
  ELSE /\ chBuf' = Append(chBuf, chSent + 1)
       /\ chSent' = chSent + 1
       /\ chS' = [chS EXCEPT ![p] = "idle"]
       /\ chR' = WakeupNext(chGetters, chR)
       /\ chGetters' = AfterWakeup(chGetters)
       /\ UNCHANGED chPutters

\* the sends that have put their item or are parked in put()
ChSendsStarted == chSent + Cardinality({p \in Producers : chS[p] \in {"waiting", "woken"}})

\* Channel.send entered by sender p, lines 44-45
ChSend(p) ==
  /\ chS[p] = "idle"
  /\ ChSendsStarted < MaxSends
  /\ IF ChSendRefused(chClosed)
     THEN /\ chS' = [chS EXCEPT ![p] = "failed"]
          /\ UNCHANGED <<chBuf, chSent, chR, chGetters, chPutters>>
     ELSE ChPut(p)
  /\ UNCHANGED <<chMax, chClosed, chGot>>
  /\ UNCHANGED chOthers

\* Channel.send resumed inside put(), line 45
ChSendResume(p) ==
  /\ chS[p] = "woken"
  /\ ChPut(p)
  /\ UNCHANGED <<chMax, chClosed, chGot>>
  /\ UNCHANGED chOthers

\* Channel.receive, line 63: return await self._q.get(), run from the top of
\* the loop of get(); _closed is not read
ChGet(c) ==
  IF chBuf = <<>>
  THEN /\ chR' = [chR EXCEPT ![c] = "waiting"]
       /\ chGetters' = Append(chGetters, c)
       /\ UNCHANGED <<chBuf, chGot, chS, chPutters>>
  ELSE /\ chBuf' = Tail(chBuf)
       /\ chGot' = Append(chGot, Head(chBuf))
       /\ chR' = [chR EXCEPT ![c] = "idle"]
       /\ chS' = WakeupNext(chPutters, chS)
       /\ chPutters' = AfterWakeup(chPutters)
       /\ UNCHANGED chGetters

\* Channel.receive entered by receiver c
ChReceive(c) ==
  /\ chR[c] = "idle"
  /\ ChGet(c)
  /\ UNCHANGED <<chMax, chClosed, chSent>>
  /\ UNCHANGED chOthers

\* Channel.receive resumed inside get()
ChReceiveResume(c) ==
  /\ chR[c] = "woken"
  /\ ChGet(c)
  /\ UNCHANGED <<chMax, chClosed, chSent>>
  /\ UNCHANGED chOthers

\* Channel.close, line 51
ChClose ==
  /\ ~chClosed
  /\ chClosed' = TRUE
  /\ UNCHANGED <<chMax, chBuf, chPutters, chGetters, chS, chR, chSent, chGot>>
  /\ UNCHANGED chOthers

(***************************************************************************)
(* StreamE.via_acquire_release (stream.py, lines 413-476)                  *)
(*                                                                         *)
(* StreamE.from_iterable(items).via_acquire_release(acquire, release,      *)
(* func, workers, out_capacity).run(sink_fold(..)): the upstream task      *)
(* sends StreamLen items to in_q, the workers take them, and the sink      *)
(* reads out and err, both unbounded.  acquire, func and release go        *)
(* through one suspension point each; acquire and func then return or      *)
(* raise.  The queues are kept as item counts.  A task runs from one       *)
(* suspension point to the next in one action: sends and closes on a queue *)
(* that need not wait do not suspend.                                      *)
(***************************************************************************)
\* the state when build.run (lines 423-474) has created the tasks
VaNew(w, cap) ==
  /\ vaW = w
  /\ vaCap = cap
  /\ vaSrcPc = "run"
  /\ vaSrcI = 0
  /\ vaInQ = 0
  /\ vaInClosed = FALSE
  /\ vaOutQ = 0
  /\ vaOutClosed = FALSE
  /\ vaErrQ = 0
  /\ vaActive = w
  /\ vaFlag = FALSE
  /\ vaPc = [k \in Workers |-> IF k <= w THEN "new" ELSE "none"]
  /\ vaAcq = [k \in Workers |-> 0]
  /\ vaRel = [k \in Workers |-> 0]
  /\ vaNoRsrc = {}
  /\ vaSink = "run"

\* the component when a specification does not use it
VaIdle ==
  /\ vaW = 0
  /\ vaCap = 0
  /\ vaSrcPc = "done"
  /\ vaSrcI = 0
  /\ vaInQ = 0
  /\ vaInClosed = FALSE
  /\ vaOutQ = 0
  /\ vaOutClosed = FALSE
  /\ vaErrQ = 0
  /\ vaActive = 0
  /\ vaFlag = FALSE
  /\ vaPc = [k \in Workers |-> "none"]
  /\ vaAcq = [k \in Workers |-> 0]
  /\ vaRel = [k \in Workers |-> 0]
  /\ vaNoRsrc = {}
  /\ vaSink = "ok"

\* how many items the upstream sends in one run: from_iterable.run, lines
\* 210-211, with Queue.send of queue.py; a send resumed out of
\* Condition.wait() appends without testing _closed again
VaSrcPushes(resumed) ==
  LET room == IF vaCap = 0 THEN StreamLen ELSE vaCap - vaInQ
      left == StreamLen - vaSrcI IN
    IF vaInClosed THEN (IF resumed THEN 1 ELSE 0) ELSE Min(left, room)

\* from_iterable.run, lines 209-216: the upstream sends until in_q is full,
\* the items are over (finally: close) or a send raises QueueClosed (which
\* goes to err, then finally: close)
VaSrcGo(resumed) ==
  LET m == VaSrcPushes(resumed) IN
    /\ vaSrcI' = vaSrcI + m
    /\ vaInQ' = vaInQ + m
    /\ IF vaSrcI + m = StreamLen
       THEN vaSrcPc' = "done" /\ vaInClosed' = TRUE /\ UNCHANGED vaErrQ
       ELSE IF vaInClosed
       THEN vaSrcPc' = "done" /\ vaErrQ' = vaErrQ + 1 /\ UNCHANGED vaInClosed
       ELSE vaSrcPc' = "parked" /\ UNCHANGED <<vaInClosed, vaErrQ>>

\* the upstream task runs for the first time
VaSrcRun ==
  /\ vaSrcPc = "run"
  /\ VaSrcGo(FALSE)
  /\ UNCHANGED <<vaW, vaCap, vaOutQ, vaOutClosed, vaActive, vaFlag, vaPc, vaAcq, vaRel,
                 vaNoRsrc, vaSink>>
  /\ UNCHANGED vaOthers

\* the upstream task resumes in a send once in_q has room
VaSrcResume ==
  /\ vaSrcPc = "parked"
  /\ vaCap = 0 \/ vaInQ < vaCap
  /\ VaSrcGo(TRUE)
  /\ UNCHANGED <<vaW, vaCap, vaOutQ, vaOutClosed, vaActive, vaFlag, vaPc, vaAcq, vaRel,
                 vaNoRsrc, vaSink>>
  /\ UNCHANGED vaOthers

\* worker, lines 440-446, 451-455, 458-460, 463-464 and the finally clause of
\* lines 465-469: how a worker leaves, and whether release is started
VaStartsRelease(how) == how # "acqfail"

\* worker k leaves: acqfail (lines 440-446), exhausted (451-455), funcfail
\* (458-460) or downclosed (463-464); close_out_once is lines 431-435
VaLeave(k, how) ==
  LET last == how \in {"acqfail", "exhausted"} /\ vaActive - 1 = 0
      closes == how = "funcfail" \/ last IN
    /\ vaErrQ' = IF how \in {"acqfail", "funcfail"} THEN vaErrQ + 1 ELSE vaErrQ
    /\ vaActive' = IF how \in {"acqfail", "exhausted"} THEN vaActive - 1 ELSE vaActive
    /\ vaInClosed' = (vaInClosed \/ how \in {"funcfail", "downclosed"})
    /\ vaFlag' = (vaFlag \/ closes)
    /\ vaOutClosed' = (vaOutClosed \/ (closes /\ ~vaFlag))
    /\ IF VaStartsRelease(how)
       THEN /\ vaPc' = [vaPc EXCEPT ![k] = "release"]
            /\ vaRel' = [vaRel EXCEPT ![k] = @ + 1]
            /\ UNCHANGED vaNoRsrc
       ELSE /\ vaPc' = [vaPc EXCEPT ![k] = "done"]
            /\ vaNoRsrc' = vaNoRsrc \cup {k}
            /\ UNCHANGED vaRel

\* worker, lines 448-457: the loop run from its top by worker k, with out
\* holding outq items: receive, then func up to its suspension point
VaLoop(k, outq) ==
  /\ vaOutQ' = outq
  /\ IF vaInQ > 0
     THEN /\ vaInQ' = vaInQ - 1
          /\ vaPc' = [vaPc EXCEPT ![k] = "func"]
          /\ UNCHANGED <<vaErrQ, vaActive, vaInClosed, vaFlag, vaOutClosed, vaRel, vaNoRsrc>>
     ELSE IF vaInClosed
     THEN /\ VaLeave(k, "exhausted")
          /\ UNCHANGED vaInQ
     ELSE /\ vaPc' = [vaPc EXCEPT ![k] = "recv"]
          /\ UNCHANGED <<vaInQ, vaErrQ, vaActive, vaInClosed, vaFlag, vaOutClosed, vaRel,
                         vaNoRsrc>>

\* the tasks run for the first time in the order build.run created them
\* (lines 425 and 471-472): the upstream task, then the workers
VaFirst(k) == vaSrcPc # "run" /\ \A j \in Workers : j < k => vaPc[j] # "new"

\* worker k runs for the first time: acquire up to its suspension point (line 439)
VaStart(k) ==
  /\ vaPc[k] = "new"
  /\ VaFirst(k)
  /\ vaPc' = [vaPc EXCEPT ![k] = "acquire"]
  /\ vaAcq' = [vaAcq EXCEPT ![k] = @ + 1]
  /\ UNCHANGED <<vaW, vaCap, vaSrcPc, vaSrcI, vaInQ, vaInClosed, vaOutQ, vaOutClosed, vaErrQ,
                 vaActive, vaFlag, vaRel, vaNoRsrc, vaSink>>
  /\ UNCHANGED vaOthers

\* acquire ends for worker k (lines 439-447)
VaAcquireEnd(k) ==
  /\ vaPc[k] = "acquire"
  /\ \A j \in Workers : vaPc[j] # "new"
  /\ \/ VaLoop(k, vaOutQ)
     \/ VaLeave(k, "acqfail") /\ UNCHANGED <<vaInQ, vaOutQ>>
  /\ UNCHANGED <<vaW, vaCap, vaSrcPc, vaSrcI, vaAcq, vaSink>>
  /\ UNCHANGED vaOthers

\* worker k resumes in in_q.receive() (line 450)
VaRecvResume(k) ==
  /\ vaPc[k] = "recv"
  /\ vaInQ > 0 \/ vaInClosed
  /\ VaLoop(k, vaOutQ)
  /\ UNCHANGED <<vaW, vaCap, vaSrcPc, vaSrcI, vaAcq, vaSink>>
  /\ UNCHANGED vaOthers

\* func ends for worker k (lines 456-464): it returned and y is sent to out,
\* or it raised
VaFuncEnd(k) ==
  /\ vaPc[k] = "func"
  /\ \/ IF vaOutClosed
        THEN VaLeave(k, "downclosed") /\ UNCHANGED <<vaInQ, vaOutQ>>
        ELSE VaLoop(k, vaOutQ + 1)
     \/ VaLeave(k, "funcfail") /\ UNCHANGED <<vaInQ, vaOutQ>>
  /\ UNCHANGED <<vaW, vaCap, vaSrcPc, vaSrcI, vaAcq, vaSink>>
  /\ UNCHANGED vaOthers

\* release ends for worker k; what it raises is swallowed (lines 466-469)
VaReleaseEnd(k) ==
  /\ vaPc[k] = "release"
  /\ vaPc' = [vaPc EXCEPT ![k] = "done"]
  /\ UNCHANGED <<vaW, vaCap, vaSrcPc, vaSrcI, vaInQ, vaInClosed, vaOutQ, vaOutClosed, vaErrQ,
                 vaActive, vaFlag, vaAcq, vaRel, vaNoRsrc, vaSink>>
  /\ UNCHANGED vaOthers

\* sink_fold, lines 502-539: a value of out is folded into acc; an exception
\* in err goes first (line 515)
VaSinkRecv ==
  /\ vaSink = "run"
  /\ vaErrQ = 0
  /\ vaOutQ > 0
  /\ vaOutQ' = vaOutQ - 1
  /\ UNCHANGED <<vaW, vaCap, vaSrcPc, vaSrcI, vaInQ, vaInClosed, vaOutClosed, vaErrQ,
                 vaActive, vaFlag, vaPc, vaAcq, vaRel, vaNoRsrc, vaSink>>
  /\ UNCHANGED vaOthers

\* sink_fold ends, and with it StreamE.run (line 394): it raises the
\* exception it got from err (lines 533-535), or returns acc when out is
\* closed and drained (lines 537-538)
VaSinkEnd ==
  /\ vaSink = "run"
  /\ IF vaErrQ > 0
     THEN vaSink' = "failed" /\ vaErrQ' = vaErrQ - 1
     ELSE vaOutQ = 0 /\ vaOutClosed /\ vaSink' = "ok" /\ UNCHANGED vaErrQ
  /\ UNCHANGED <<vaW, vaCap, vaSrcPc, vaSrcI, vaInQ, vaInClosed, vaOutQ, vaOutClosed,
                 vaActive, vaFlag, vaPc, vaAcq, vaRel, vaNoRsrc>>
  /\ UNCHANGED vaOthers

(***************************************************************************)
(* The specifications, one per component                                   *)
(***************************************************************************)
ScInit ==
  /\ ScNew
  /\ QueueIdle
  /\ ArIdle
  /\ ParIdle
  /\ LyIdle
  /\ RcIdle
  /\ RtIdle
  /\ EnIdle
  /\ HubNew
  /\ StIdle
  /\ MgIdle
  /\ ChIdle
  /\ VaIdle

ScNext ==
  \/ ScAddFinalizer
  \/ \E f \in Fins : ScAddResume(f)
  \/ \E c \in Closers : ScClose(c)
  \/ \E c \in Closers : ScCloseResume(c)

SpecScope == ScInit /\ [][ScNext]_vars

RcInit ==
  /\ \/ \E n \in 0..MaxRecurs, k \in 0..MaxFails, last \in Finals :
          RcNew("retry", n, {1}, [t \in Evals |-> k], [t \in Evals |-> last])
     \/ \E comb \in {"catch_all", "fold"}, k \in 0..1, last \in Finals :
          RcNew(comb, 0, {1}, [t \in Evals |-> k], [t \in Evals |-> last])
  /\ QueueIdle
  /\ ArIdle
  /\ ParIdle
  /\ LyIdle
  /\ ScNew
  /\ RtIdle
  /\ EnIdle
  /\ HubNew
  /\ StIdle
  /\ MgIdle
  /\ ChIdle
  /\ VaIdle

RcNext ==
  \/ \E t \in Evals : RcStart(t)
  \/ \E t \in Evals : RcInnerEnd(t)
  \/ \E t \in Evals : RcHandlerEnd(t)

SpecRecover == RcInit /\ [][RcNext]_vars

\* one effect value e.retry(Schedule.recurs(n)) evaluated by two concurrent tasks
RetrySharedInit ==
  /\ \E n \in 0..MaxRecurs, k \in [Evals -> 0..MaxFails], last \in Finals :
       RcNew("retry", n, Evals, k, [t \in Evals |-> last])
  /\ QueueIdle
  /\ ArIdle
  /\ ParIdle
  /\ LyIdle
  /\ ScNew
  /\ RtIdle
  /\ EnIdle
  /\ HubNew
  /\ StIdle
  /\ MgIdle
  /\ ChIdle
  /\ VaIdle

RetryNext ==
  \/ \E t \in Evals : RcStart(t)
  \/ \E t \in Evals : RcInnerEnd(t)

SpecRetryShared == RetrySharedInit /\ [][RetryNext]_vars

RtInit ==
  /\ RtIdle
  /\ QueueIdle
  /\ ArIdle
  /\ ParIdle
  /\ LyIdle
  /\ ScNew
  /\ RcIdle
  /\ EnIdle
  /\ HubNew
  /\ StIdle
  /\ MgIdle
  /\ ChIdle
  /\ VaIdle

RtNext ==
  \/ Fork
  \/ FiberStep
  \/ OnDone
  \/ SvRun
  \/ \E c \in Callers, op \in FiberOps : Call(c, op)
  \/ \E c \in Callers : Wake(c)
  \/ \E c \in Callers : CancelCaller(c)

SpecRuntime == RtInit /\ [][RtNext]_vars

EnInit ==
  /\ EnNew
  /\ QueueIdle
  /\ ArIdle
  /\ ParIdle
  /\ LyIdle
  /\ ScNew
  /\ RcIdle
  /\ RtIdle
  /\ HubNew
  /\ StIdle
  /\ MgIdle
  /\ ChIdle
  /\ VaIdle

EnNext ==
  \/ EnStep
  \/ EnFinStep
  \/ EnInterrupt

SpecEnsuring == EnInit /\ [][EnNext]_vars

HubInit ==
  /\ HubNew
  /\ QueueIdle
  /\ ArIdle
  /\ ParIdle
  /\ LyIdle
  /\ ScNew
  /\ RcIdle
  /\ RtIdle
  /\ EnIdle
  /\ StIdle
  /\ MgIdle
  /\ ChIdle
  /\ VaIdle

HubNext ==
  \/ \E s \in Subs, maxsize \in HubSizes : Subscribe(s, maxsize)
  \/ \E s \in Subs : SbClose(s)
  \/ \E s \in Subs : SbReceive(s)
  \/ \E p \in Pubs : Publish(p)
  \/ \E p \in Pubs : PublishResume(p)
  \/ HubClose

SpecHub == HubInit /\ [][HubNext]_vars

StreamInit ==
  /\ StNew("Stream")
  /\ QueueIdle
  /\ ArIdle
  /\ ParIdle
  /\ LyIdle
  /\ ScNew
  /\ RcIdle
  /\ RtIdle
  /\ EnIdle
  /\ HubNew
  /\ MgIdle
  /\ ChIdle
  /\ VaIdle

StreamNext ==
  \/ SrcRun
  \/ SrcResume
  \/ \E k \in Stages : WkRecv(k)
  \/ \E k \in Stages : \E x \in wkFunc[k] : WkFunc(k, x)
  \/ \E k \in Stages : \E y \in wkParked[k] : WkResume(k, y)
  \/ ColRecv

SpecStream == StreamInit /\ [][StreamNext]_vars

\* the event loop runs some task that can run
SpecStreamFair == SpecStream /\ WF_vars(StreamNext)

StreamEInit ==
  /\ StNew("StreamE")
  /\ QueueIdle
  /\ ArIdle
  /\ ParIdle
  /\ LyIdle
  /\ ScNew
  /\ RcIdle
  /\ RtIdle
  /\ EnIdle
  /\ HubNew
  /\ MgIdle
  /\ ChIdle
  /\ VaIdle

StreamENext ==
  \/ SrcRun
  \/ SrcResume
  \/ \E k \in Stages : WkRecv(k)
  \/ \E k \in Stages : \E x \in wkFunc[k] : WkFunc(k, x)
  \/ \E k \in Stages : \E y \in wkParked[k] : WkResume(k, y)
  \/ SkRecvVal
  \/ SkRecvErr
  \/ SkCallback
  \/ SkWake

SpecStreamE == StreamEInit /\ [][StreamENext]_vars

MergeInit ==
  /\ MgNew
  /\ QueueIdle
  /\ ArIdle
  /\ ParIdle
  /\ LyIdle
  /\ ScNew
  /\ RcIdle
  /\ RtIdle
  /\ EnIdle
  /\ HubNew
  /\ StIdle
  /\ ChIdle
  /\ VaIdle

MergeNext ==
  \/ \E s \in MgSides : MgFeed(s)
  \/ \E s \in MgSides : MgFeedClose(s)
  \/ \E s \in MgSides : PumpRecv(s)
  \/ \E s \in MgSides : PumpResume(s)
  \/ MgClose
  \/ MgCollect

SpecMerge == MergeInit /\ [][MergeNext]_vars

\* the loop calls every callback it has scheduled and runs every task made
SpecRuntimeFair == SpecRuntime /\ WF_vars(OnDone) /\ WF_vars(SvRun)

LyInit ==
  /\ \E op \in {"+", "|"}, t1 \in Types, t2 \in Types, scoped \in BOOLEAN :
       LyNew(op, t1, t2, scoped)
  /\ QueueIdle
  /\ ArIdle
  /\ ParIdle
  /\ ScNew
  /\ RcIdle
  /\ RtIdle
  /\ EnIdle
  /\ HubNew
  /\ StIdle
  /\ MgIdle
  /\ ChIdle
  /\ VaIdle

LyNext ==
  \/ LyBuild
  \/ \E w \in Sides : LyAcquire(w)
  \/ \E w \in Sides : LyMkReturn(w)
  \/ LyJoin
  \/ LyTeardown
  \/ \E w \in Sides : LyRelease(w)
  \/ \E w \in Sides : LyCloseReturn(w)
  \/ LyFinish

SpecLayer == LyInit /\ [][LyNext]_vars

ParInit ==
  /\ \/ ParNew("zip_par", 2, 0, FALSE)
     \/ ParNew("race", 2, 0, FALSE)
     \/ ParNew("uninterruptible", 1, 0, FALSE)
     \/ \E n \in 0..NumItems, par \in 1..NumItems : ParNew("for_each_par", n, par, FALSE)
     \/ \E n \in 0..NumItems, par \in 0..NumItems, ord \in BOOLEAN :
          ParNew("merge_all", n, par, ord)
  /\ QueueIdle
  /\ ArIdle
  /\ LyIdle
  /\ ScNew
  /\ RcIdle
  /\ RtIdle
  /\ EnIdle
  /\ HubNew
  /\ StIdle
  /\ MgIdle
  /\ ChIdle
  /\ VaIdle

ParNext ==
  \/ ZipStart
  \/ ZipAwait
  \/ RaceStart
  \/ RaceWait
  \/ UnintStart
  \/ UnintAwait
  \/ FepStart
  \/ FepWait
  \/ MaStart
  \/ MaGather
  \/ MaInline
  \/ MaWait
  \/ ParDrain
  \/ \E i \in Kids : TaskStep(i)
  \/ \E i \in Kids : WorkerStep(i)
  \/ ParInterrupt

SpecPar == ParInit /\ [][ParNext]_vars

ZipInit ==
  /\ ParNew("zip_par", 2, 0, FALSE)
  /\ QueueIdle
  /\ ArIdle
  /\ LyIdle
  /\ ScNew
  /\ RcIdle
  /\ RtIdle
  /\ EnIdle
  /\ HubNew
  /\ StIdle
  /\ MgIdle
  /\ ChIdle
  /\ VaIdle

ZipNext ==
  \/ ZipStart
  \/ ZipAwait
  \/ ParDrain
  \/ \E i \in Kids : TaskStep(i)
  \/ ParInterrupt

SpecZipPar == ZipInit /\ [][ZipNext]_vars

ArInit ==
  /\ arPc = "new"
  /\ arLeft = 0
  /\ arCancel = FALSE
  /\ arAcqRuns = 0
  /\ arRelRuns = 0
  /\ arAcqExit = NoExit
  /\ arUseExit = NoExit
  /\ arRelExit = NoExit
  /\ arExit = NoExit
  /\ arIntr = {}
  /\ QueueIdle
  /\ ParIdle
  /\ LyIdle
  /\ ScNew
  /\ RcIdle
  /\ RtIdle
  /\ EnIdle
  /\ HubNew
  /\ StIdle
  /\ MgIdle
  /\ ChIdle
  /\ VaIdle

ArNext ==
  \/ ArStart
  \/ ArAcquireStep
  \/ ArUseStep
  \/ ArReleaseStep
  \/ ArInterrupt

SpecAcquireRelease == ArInit /\ [][ArNext]_vars

QueueInit ==
  /\ \E m \in 0..MaxCap : QueueNew(m)
  /\ QueueStart
  /\ ArIdle
  /\ ParIdle
  /\ LyIdle
  /\ ScNew
  /\ RcIdle
  /\ RtIdle
  /\ EnIdle
  /\ HubNew
  /\ StIdle
  /\ MgIdle
  /\ ChIdle
  /\ VaIdle

SpecQueue == QueueInit /\ [][QueueNext]_vars

ChInit ==
  /\ \E m \in 0..MaxCap : ChNew(m)
  /\ QueueIdle
  /\ ArIdle
  /\ ParIdle
  /\ LyIdle
  /\ ScNew
  /\ RcIdle
  /\ RtIdle
  /\ EnIdle
  /\ HubNew
  /\ StIdle
  /\ MgIdle
  /\ VaIdle

ChNext ==
  \/ \E p \in Producers : ChSend(p)
  \/ \E p \in Producers : ChSendResume(p)
  \/ \E c \in Consumers : ChReceive(c)
  \/ \E c \in Consumers : ChReceiveResume(c)
  \/ ChClose

SpecChannel == ChInit /\ [][ChNext]_vars

VaInit ==
  /\ \E w \in 1..MaxWorkers, cap \in 0..MaxCap : VaNew(w, cap)
  /\ QueueIdle
  /\ ArIdle
  /\ ParIdle
  /\ LyIdle
  /\ ScNew
  /\ RcIdle
  /\ RtIdle
  /\ EnIdle
  /\ HubNew
  /\ StIdle
  /\ MgIdle
  /\ ChIdle

VaNext ==
  \/ VaSrcRun
  \/ VaSrcResume
  \/ \E k \in Workers : VaStart(k)
  \/ \E k \in Workers : VaAcquireEnd(k)
  \/ \E k \in Workers : VaRecvResume(k)
  \/ \E k \in Workers : VaFuncEnd(k)
  \/ \E k \in Workers : VaReleaseEnd(k)
  \/ VaSinkRecv
  \/ VaSinkEnd

SpecViaAcquireRelease == VaInit /\ [][VaNext]_vars

(***************************************************************************)
(* Queue: properties                                                       *)
(***************************************************************************)
\* the items of producer p in s, in the order of s
ItemsOf(s, p) == SelectSeq(s, LAMBDA it : it[1] = p)

\* C1: under every interleaving of send and receive on a bounded queue, every
\* item whose send completed has been returned by exactly one receive or is
\* still buffered (none lost, none duplicated, none invented), and the items
\* of each producer are received in the order that producer sent them.
C1_ExactlyOnceFifoPerProducer ==
  \A p \in Producers :
    qGot[p] \o ItemsOf(qBuf, p) = [i \in 1..pSent[p] |-> <<p, i>>]

\* a bounded queue through which concurrent producers have passed all their
\* items, more items than it has room for, with a consumer parked in receive
C1_Witness ==
  /\ qMaxsize >= 1
  /\ qMaxsize < MaxSends
  /\ qBuf = <<>>
  /\ \E p \in Producers, q \in Producers :
       p # q /\ Len(qGot[p]) >= 2 /\ Len(qGot[q]) >= 2 /\ Len(qGot[p]) + Len(qGot[q]) = MaxSends
  /\ \E c \in Consumers : cPc[c] = "waiting"

\* the steps of receive and send on a closed queue
C2_ClosedStep ==
  /\ \A c \in Consumers :
       (qClosed /\ (Receive(c) \/ ReceiveResume(c))) =>
          IF qBuf # <<>>
          THEN /\ qBuf' = Tail(qBuf)
               /\ qGot' = [qGot EXCEPT ![Head(qBuf)[1]] = Append(@, Head(qBuf))]
               /\ cPc'[c] = "idle"
          ELSE cPc'[c] = "failed" /\ qBuf' = qBuf
  /\ \A p \in Producers :
       (qClosed /\ Send(p)) => (pPc'[p] = "failed" /\ qBuf' = qBuf /\ pSent' = pSent)

\* what is left of the items buffered at close time is the front of the buffer
C2_PendingIsFront ==
  qClosed => (Len(qPending) <= Len(qBuf) /\ qPending = SubSeq(qBuf, 1, Len(qPending)))

\* C2: after close(), the items buffered at close time are returned by receive
\* in FIFO order (a receive on the closed, non-empty queue returns the head of
\* the buffer, and the items of the snapshot not yet received are the front of
\* the buffer, in the snapshot's order); a receive on the closed and empty
\* queue fails with QueueClosed; a send issued after close fails with
\* QueueClosed and adds nothing to the buffer.
C2_CloseSemantics == []C2_PendingIsFront /\ [][C2_ClosedStep]_vars

\* closed with two items buffered, both drained since, then a receive and a send failed
C2_Witness ==
  /\ qClosed
  /\ qSnapMany
  /\ qPending = <<>>
  /\ qBuf = <<>>
  /\ \E c \in Consumers : cPc[c] = "failed"
  /\ \E p \in Producers : pPc[p] = "failed"

(***************************************************************************)
(* acquire_release: properties                                             *)
(***************************************************************************)
\* C3: when acq succeeds, for every outcome of use (success, fail, die, or an
\* interrupt delivered while use is running), acq runs exactly once, rel runs
\* exactly once and ends, rel starts only after use has terminated, and the
\* outcome of the whole effect is the outcome of use, also when rel fails.
C3_BracketRunsReleaseOnce ==
  /\ arRelRuns >= 1 => arUseExit # NoExit
  /\ arPc \in {"use", "release"} => (arAcqRuns = 1 /\ arAcqExit.kind = "success")
  /\ arPc = "use" => arRelRuns = 0
  /\ arPc = "release" => arRelRuns = 1
  /\ (arPc = "done" /\ arAcqExit.kind = "success" /\ arIntr \subseteq {"use"}) =>
       /\ arAcqRuns = 1
       /\ arRelRuns = 1
       /\ arRelExit # NoExit
       /\ arUseExit # NoExit
       /\ arExit = arUseExit

\* use was interrupted, rel ran once and failed, the interrupt is the outcome
C3_Witness ==
  /\ arPc = "done"
  /\ arIntr = {"use"}
  /\ arUseExit = Interrupt
  /\ arRelRuns = 1
  /\ arRelExit.kind = "fail"
  /\ arExit = Interrupt

(***************************************************************************)
(* zip_par: properties                                                     *)
(***************************************************************************)
\* C4: in zip_par(e1, e2) that no other task cancels, if e1 fails with Fail(x)
\* while e2 is still running, e2 is cancelled: it ends with an interrupt and
\* runs no further step after the cancel; zip_par waits for it and ends with
\* exactly e1's Fail(x), never with an interrupt, never with a combined cause.
C4_ZipParFailCancelsSibling ==
  /\ \A i \in {1, 2} : KidCancelled(i) => kWork[i] = kCancelAt[i]
  /\ (parComb = "zip_par" /\ parPc = "drain") =>
       \A i \in {1, 2} : KidDone(i) \/ KidCancelled(i)
  /\ (parComb = "zip_par" /\ parPc = "done" /\ ~parIntr /\ kExit[1].kind = "fail") =>
       /\ parExit = kExit[1]
       /\ KidDone(2)
       /\ KidCancelled(2) => kExit[2] = Interrupt

\* e1 failed while e2 was parked in its effect: e2 was interrupted, Fail(1) came out
C4_Witness ==
  /\ parComb = "zip_par"
  /\ parPc = "done"
  /\ ~parIntr
  /\ kExit[1] = Fail(1)
  /\ kExit[2] = Interrupt
  /\ kWork[2] >= 1
  /\ parExit = Fail(1)

\* C5: zip_par cancels the sibling on failure of either side: when e2 has
\* failed while e1 is still running, e1 is cancelled at once; zip_par does not
\* wait for e1 to finish on its own (it is never parked, with e2 failed, on an
\* e1 that nobody cancelled).
C5_ZipParCancelsOnEitherFailure ==
  (parComb = "zip_par" /\ kExit[2].kind = "fail" /\ kSt[1] = "run" /\ ~ParRunnable) =>
     KidCancelled(1)

(***************************************************************************)
(* Parallel combinators: properties                                        *)
(***************************************************************************)
\* C6: for zip_par, race, for_each_par and merge_all alike, when the task
\* evaluating the combinator is cancelled while children it started are still
\* running, every such child is cancelled: once the combinator has ended with
\* the interrupt, no child it created is left that is neither done nor cancelled.
C6_ParentCancelCancelsChildren ==
  (parPc = "done" /\ parExit = Interrupt) =>
     \A i \in Kids : kSt[i] \in {"none", "done"} \/ KidCancelled(i)

(***************************************************************************)
(* Layer: properties                                                       *)
(***************************************************************************)
\* the instances made by the mk calls of the build
Created == {w \in Sides : lyInst[w] = w}

\* C7: within one composite build, the mk of a from_resource leaf is invoked
\* at most once per service type, also when the type occurs on both sides of
\* the composition, and every occurrence of the type provides the same instance.
C7_LeafBuiltOnce ==
  /\ \A t \in Types : lyMk[t] <= 1
  /\ \A v \in Sides, w \in Sides :
       (lyT[v] = lyT[w] /\ lySt[v] = "ok" /\ lySt[w] = "ok") => lyInst[v] = lyInst[w]

\* C8: the close function is called at most once on every instance the build
\* made, and exactly once on each of them when the teardown of the composite
\* has returned and no release raised.
C8_CloseOncePerInstance ==
  /\ \A i \in Sides : lyClose[i] <= 1
  /\ (lyPhase = "done" /\ \A w \in Sides : lyRel[w] = "ok") =>
        \A i \in Created : lyClose[i] = 1

(***************************************************************************)
(* Scope: properties                                                       *)
(***************************************************************************)
\* the finalizers that were registered when close() closed the scope
Registered == {scAtClose[i] : i \in 1..Len(scAtClose)}

\* the calls and the ends of the registered finalizers, in order
RegLog == SelectSeq(scLog, LAMBDA e : e[2] \in Registered)

\* a registration order run backwards, one finalizer ending before the next is called
RECURSIVE Lifo(_)
Lifo(stk) ==
  IF stk = <<>> THEN <<>>
  ELSE <<<<"start", stk[Len(stk)]>>, <<"end", stk[Len(stk)]>>>> \o
       Lifo(SubSeq(stk, 1, Len(stk) - 1))

IsPrefix(a, b) == Len(a) <= Len(b) /\ a = SubSeq(b, 1, Len(a))

\* C9: close() calls the registered finalizers in the reverse of their
\* registration order, each one only after the one called before it has ended;
\* when close() has returned it has done so for all of them.
C9_CloseRunsLifo ==
  /\ IsPrefix(RegLog, Lifo(scAtClose))
  /\ (\E c \in Closers : clPc[c] = "closed") => RegLog = Lifo(scAtClose)

\* close() has returned after two or more finalizers, and a finalizer added
\* after the close ran while they were being run
C9_Witness ==
  /\ \E c \in Closers : clPc[c] = "closed"
  /\ Len(scAtClose) >= 2
  /\ scLog # RegLog
  /\ scLog[Len(scLog)][2] \in Registered

\* C10: a finalizer that fails (raises an Exception) does not make close()
\* raise: close() raises only when a finalizer raised something that is not an
\* Exception; and when close() has returned, every finalizer registered before
\* it was called and has ended, whichever of them failed.
C10_FailureDoesNotStopClose ==
  /\ \A c \in Closers :
       clPc[c] = "raised" => \E f \in Registered : scOut[f] = "base"
  /\ (\E c \in Closers : clPc[c] = "closed") =>
        \A f \in Registered : scRuns[f] >= 1 /\ scOut[f] \in {"ok", "err"}

\* close() has returned, the finalizer it called first failed and the one
\* it called last, after the failure, succeeded
C10_Witness ==
  /\ \E c \in Closers : clPc[c] = "closed"
  /\ Len(scAtClose) >= 2
  /\ scOut[scAtClose[Len(scAtClose)]] = "err"
  /\ scOut[scAtClose[1]] = "ok"

\* no finalizer is called twice
C11_RunAtMostOnce == \A f \in Fins : scRuns[f] <= 1

\* a close() entered on a closed scope calls no finalizer and takes none off the list
C11_CloseOnClosedRunsNothing ==
  \A c \in Closers :
    (scClosed /\ ScClose(c)) =>
       (scRuns' = scRuns /\ scLog' = scLog /\ scFinalizers' = scFinalizers)

\* C11: over every sequence of add_finalizer and close calls, a second close
\* issued while the first one is draining included, every finalizer is called
\* at most once, and a close() on an already closed scope runs nothing.
C11_CloseIdempotent == []C11_RunAtMostOnce /\ [][C11_CloseOnClosedRunsNothing]_vars

\* a second close() has returned while the first one is parked in a finalizer
\* with finalizers left to run
C11_Witness ==
  \E c \in Closers, d \in Closers :
    clPc[c] = "noop" /\ clPc[d] = "drain" /\ scFinalizers # <<>>

\* the finalizers in Scope._finalizers
Stored == {scFinalizers[i] : i \in 1..Len(scFinalizers)}

\* the finalizers given to add_finalizer so far
Added == 1..(scNext - 1)

\* C12: a finalizer given to add_finalizer on a closed scope has been called
\* exactly once when the step that entered add_finalizer is over, and is not
\* stored; a finalizer added to the open scope is stored and is not called
\* while the scope is open.
C12_AddAfterCloseRunsAtOnce ==
  /\ ~scClosed => (scFinalizers = [i \in Added |-> i] /\ \A f \in Fins : scRuns[f] = 0)
  /\ scClosed =>
       \A f \in Added \ Registered : scRuns[f] = 1 /\ f \notin Stored
  /\ \A f \in Stored : scRuns[f] = 0

\* finalizers were stored and run by close(), and one added after close has run
C12_Witness ==
  /\ scClosed
  /\ Registered # {}
  /\ \E f \in Added \ Registered : scOut[f] # "none"
  /\ \E f \in Registered : scOut[f] # "none"

(***************************************************************************)
(* catch_all, fold, retry: properties                                      *)
(***************************************************************************)
\* C13: when one task evaluates e.retry(Schedule.recurs(n)) and e fails on its
\* first k evaluations and succeeds afterwards, e is evaluated min(k+1, n+1)
\* times, never more on the way; the result is the value of e when k <= n and
\* the Fail of the last attempt otherwise.
C13_RetryRecursAttempts ==
  \A t \in rcActive :
    (rcComb = "retry" /\ rcActive = {t} /\ rcLast[t].kind = "success") =>
       /\ rcAttempts[t] <= Min(rcK[t] + 1, rcN + 1)
       /\ rcPc[t] = "done" =>
            /\ rcAttempts[t] = Min(rcK[t] + 1, rcN + 1)
            /\ rcExit[t] = IF rcK[t] <= rcN THEN rcLast[t] ELSE Fail(rcN + 1)

\* a retry that ran out of its budget of one or more retries
C13_Witness ==
  /\ rcComb = "retry"
  /\ rcActive = {1}
  /\ rcLast[1].kind = "success"
  /\ rcN >= 1
  /\ rcK[1] > rcN
  /\ rcPc[1] = "done"
  /\ rcExit[1].kind = "fail"

\* C14: when an evaluation of e has ended with a Die or an Interrupt, the whole
\* effect has ended with that same outcome in the same step; catch_all has not
\* called f and fold has not called on_error; retry has consulted the schedule
\* only for the Fails before it and has not evaluated e again.
C14_OnlyFailIsRecovered ==
  \A t \in rcActive :
    rcInner[t].kind \in {"die", "interrupt"} =>
       /\ rcPc[t] = "done"
       /\ rcExit[t] = rcInner[t]
       /\ rcComb \in {"catch_all", "fold"} => rcHandler[t] = 0
       /\ rcComb = "retry" => (rcSteps[t] = rcFails[t] /\ rcAttempts[t] = rcFails[t] + 1)

\* a retry with budget left whose effect failed once and then died
C14_Witness ==
  /\ rcComb = "retry"
  /\ rcInner[1] = Die
  /\ rcFails[1] >= 1
  /\ schedState >= 1
  /\ rcExit[1] = Die

\* C15: when every item's effect succeeds (and nobody interrupts the parent),
\* for_each_par ends with a success whose list has one entry per input item,
\* the i-th entry being the result of the i-th item's effect, whatever the
\* completion order and whatever the values.  The code drops the entries that
\* are None (line 798) and raises ValueError on an empty list of items.
C15_OneEntryPerItem ==
  (/\ parComb = "for_each_par"
   /\ parPc = "done"
   /\ ~parIntr
   /\ \A i \in 1..parN : kExit[i].kind = "success")
  => /\ parExit.kind = "success"
     /\ Len(parRes) = parN
     /\ \A i \in 1..parN : parRes[i] = kExit[i].val

\* the item effects that have started and not yet finished
Running == {i \in Kids : kSt[i] = "run"}

\* C16: during for_each_par with parallelism n >= 1, at most n item effects
\* have started and not yet finished; the permits held (by the running
\* effects and by the workers woken with a permit) and the free ones add up
\* to n.
C16_AtMostNRunning ==
  (parComb = "for_each_par" /\ parPar >= 1) =>
     /\ Cardinality(Running) <= parPar
     /\ parTasks # {} =>
          Cardinality(Running) + Cardinality({i \in Kids : kSt[i] = "semwoken"}) + semValue
            = parPar

\* the bound is reached while another worker waits for a permit
C16_Witness ==
  /\ parComb = "for_each_par"
  /\ parPar < parN
  /\ Cardinality(Running) = parPar
  /\ \E i \in Kids : kSt[i] = "semwait"

\* some item's effect has ended with a Fail
SomeFailed == \E j \in Kids : kExit[j].kind = "fail"

\* for_each_par ends with the exception of one of its items and leaves no
\* item effect running
C17_EndsWithFailure ==
  (parComb = "for_each_par" /\ parPc = "done" /\ ~parIntr /\ SomeFailed) =>
     /\ parExit \in {kExit[j] : j \in {k \in Kids : IsException(kExit[k])}}
     /\ \A i \in parTasks : KidDone(i)

\* once an item's effect has failed, no item effect that has not started starts
C17_NoStartAfterFailure ==
  (parComb = "for_each_par" /\ SomeFailed) =>
     \A i \in Kids : kWork[i] = 0 => kWork'[i] = 0

\* C17: if the effect of some item fails, for_each_par terminates with that
\* failure, the item effects still running are cancelled, and no item effect
\* that had not yet started is started afterwards.  The failing worker gives
\* its permit to the next waiting worker, which starts its effect before the
\* parent task runs again and cancels it.
C17_FailureStopsTheRest == []C17_EndsWithFailure /\ [][C17_NoStartAfterFailure]_vars

\* race has returned or raised without having been interrupted itself
RaceEnded == parComb = "race" /\ parPc = "done" /\ ~parIntr

\* C18: race ends with the outcome of the child that completed first, the
\* other child is cancelled and has terminated when race returns or raises.
\* When the second child also completes before the parent task runs again,
\* both are in the done set and next(iter(done)) may pick the second.
C18_FirstToCompleteWins ==
  RaceEnded =>
     /\ \A i \in {1, 2} : KidDone(i)
     /\ parExit = parOuter

\* the status is 'running' as long as the task of the fiber has not ended
C19_RunningUntilEnd ==
  fbTask \in {"new", "run"} => fbStatus = "running"

\* the status changes once, from 'running' to the status of the outcome
C19_ChangesOnce ==
  fbStatus' # fbStatus =>
     \/ fbStatus = "none" /\ fbStatus' = "running"
     \/ fbStatus = "running" /\ fbStatus' = StatusOf(fbExit')

\* a join that returns the value finds the status 'done'
C19_JoinSeesDone ==
  \A c \in Callers :
    (cuPc[c] # "done" /\ cuPc'[c] = "done" /\ cuOp'[c] = "join"
       /\ cuRes'[c].kind = "success") => fbStatus' = "done"

\* C19: a forked fiber has status 'running' until its effect terminates; the
\* status then changes exactly once, to the status of the outcome, and never
\* again, whatever await_, join and interrupt calls other tasks make; when
\* join returns the value the status is already 'done'.  A join called after
\* the task has ended and before the loop has called _on_done does not park
\* and returns with the status still 'running'.
C19_StatusLifecycle ==
  []C19_RunningUntilEnd /\ [][C19_ChangesOnce /\ C19_JoinSeesDone]_vars

\* how many times the supervisor's method ev was called
Notified(ev) == Len(SelectSeq(svEvents, LAMBDA e : e = ev))

\* on_start and on_end at most once, on_end only after the fiber's task has
\* ended, on_failure only for a fiber that ended with a fail or a die
C20_NotifiedInOrder ==
  /\ Notified("start") <= 1
  /\ Notified("end") <= 1
  /\ Notified("failure") <= 1
  /\ Notified("end") = 1 => fbTask = "done"
  /\ Notified("failure") = 1 => fbTask = "done" /\ fbExit.kind \in {"fail", "die"}

\* every notification of the fiber has been made
C20_AllNotified ==
  /\ Notified("start") = 1
  /\ Notified("end") = 1
  /\ Notified("failure") = 1 <=> fbExit.kind \in {"fail", "die"}

\* C20: for a forked fiber the supervisor is notified with on_start once,
\* with on_end exactly once and only after the fiber has terminated, and with
\* on_failure if and only if the fiber ended with a fail or a die.
C20_SupervisorNotified ==
  /\ []C20_NotifiedInOrder
  /\ (fbTask = "done") ~> C20_AllNotified

\* a failed fiber after its three notifications
C20_Witness ==
  /\ fbExit.kind = "fail"
  /\ svEvents = <<"start", "failure", "end">>

\* the Exit that matches the way the fiber ended
MatchingExit ==
  CASE fbExit.kind = "success" -> ExitSuccess(fbExit.val)
    [] fbExit.kind = "fail" ->
         ExitFailure([kind |-> "fail", error |-> fbExit.val, annotations |-> fbNotes])
    [] fbExit.kind = "interrupt" -> ExitFailure(CauseInterrupt)
    [] OTHER -> ExitFailure(CauseDie)

\* C21: await_ returns the Exit that matches how the fiber ended: Success(v),
\* Failure(Fail(e)) with the annotations of the raised Failure in the order
\* they were attached, Failure(Interrupt) or Failure(Die).  await_ also
\* catches the CancelledError of its own caller: a caller cancelled after the
\* fiber's task has ended gets Failure(Interrupt) for a fiber that returned.
C21_AwaitExitMatches ==
  \A c \in Callers :
    (cuOp[c] = "await_" /\ cuPc[c] = "done") => cuExit[c] = MatchingExit

\* C22: when the task evaluating uninterruptible(e) is interrupted while e is
\* in progress, e is not cancelled and runs to completion, and the interrupt
\* is delivered to the caller only after e has finished (kCancelAt is the
\* number of times e had run when cancel() was called on its task).  "await
\* task" is not shielded: the cancel() of the parent is passed on to the task.
C22_InterruptWaitsForEffect ==
  parComb = "uninterruptible" =>
     /\ kCancelAt[1] < 1
     /\ (parPc = "done" /\ kWork[1] >= 1) => (KidDone(1) /\ kExit[1] # Interrupt)

\* the finalizer is started at most once and only after e has ended
C23_FinAfterE ==
  /\ enFinRuns <= 1
  /\ enFinRuns = 1 => enEExit # NoExit
  /\ (enPc = "done" /\ enEExit # NoExit) => enFinRuns = 1

\* C23: on every exit path of e (success, fail, die, interrupt) the finalizer
\* is run exactly once, after e has terminated, and the outcome of the whole
\* effect is the outcome of e.  The finalizer is not shielded: an interrupt
\* that arrives while it runs cuts it short and replaces the outcome of e.
C23_OutcomeIsOutcomeOfE ==
  /\ C23_FinAfterE
  /\ (enPc = "done" /\ enEExit # NoExit) => (enExit = enEExit /\ enFinExit # Interrupt)

\* C24: publish on an open hub delivers the item exactly once to every
\* subscriber that was subscribed when publish took its snapshot, and a
\* subscriber that has closed its subscription does not stop the remaining
\* subscribers from receiving it.  The send to the queue of a subscription
\* closed in the meantime raises QueueClosed out of the loop of publish, and
\* the subscribers that come later in the list get nothing.
C24_PublishReachesSnapshot ==
  \A p \in Pubs :
    ~hubClosed => \A s \in pbMissed[p] : sbSt[s] # "open"

\* C25 (state part): once Hub.close has completed, the hub has no subscriber
\* left and the queue of every subscriber is closed, so that a receive only
\* fails with closed on a closed and drained queue.
C25_QueuesClosed ==
  hubClosed =>
    /\ hubSubs = {}
    /\ \A s \in Subs : sbSt[s] # "none" => (sbQClosed[s] /\ (sbBuf[s] = <<>> => ReceiveFails(s)))

\* C25 (step part): on a closed hub a subscribe and a publish only raise
\* HubClosed, and a further close changes nothing but the count of the calls.
C25_ClosedHubRefuses ==
  hubClosed =>
    /\ \A s \in Subs : sbSt[s] = "none" => sbSt'[s] = "none"
    /\ hubSubs' = hubSubs
    /\ sbQClosed' = sbQClosed
    /\ hubClosed'
    /\ \A p \in Pubs : (pbPc[p] = "idle" /\ pbPc'[p] # "idle") =>
                          (pbPc'[p] = "refused" /\ sbBuf' = sbBuf /\ pbSnap' = pbSnap)

\* C25: after Hub.close the queue of every subscriber is closed, every later
\* subscribe and publish fails with HubClosed, and a second close has no
\* effect.
C25_AfterClose == []C25_QueuesClosed /\ [][C25_ClosedHubRefuses]_vars

\* a hub closed twice, with a subscriber whose receive fails with closed, a
\* refused subscribe and a refused publish
C25_Witness ==
  /\ hubClosed
  /\ hubReclosed
  /\ hubRefused
  /\ \E s \in Subs : sbSt[s] = "open" /\ ReceiveFails(s)
  /\ \E p \in Pubs : pbPc[p] = "refused"

C27_NoResultLost ==
  stRaised = <<>> =>
    /\ \A k \in Stages :
         stQClosed[k + 1] => (wkRecv[k] = 0 /\ wkFunc[k] = {} /\ wkParked[k] = {})
    /\ colPc = "done" =>
         /\ Len(stOut) = StreamLen
         /\ \A x \in 1..StreamLen :
              \E j \in 1..Len(stOut) : stOut[j] = Through(NumStages, x)

\* run_collect has ended, no function raised, and a stage had several workers
C27_Witness ==
  /\ colPc = "done"
  /\ stRaised = <<>>
  /\ Len(stOut) = StreamLen
  /\ \E k \in Stages : stW[k] > 1

\* C28: when every stage has one worker, the i-th value collected is the image
\* of the i-th source item through the stages, and without a raising function
\* all of them are collected.
C28_OrderPreserved ==
  (stKind = "Stream" /\ \A k \in Stages : stW[k] = 1) =>
    /\ \A j \in 1..Len(stOut) : stOut[j] = Through(NumStages, j)
    /\ (colPc = "done" /\ stRaised = <<>>) => Len(stOut) = StreamLen

\* run_collect has ended with all the values, every stage having one worker
C28_Witness ==
  /\ colPc = "done"
  /\ \A k \in Stages : stW[k] = 1
  /\ Len(stOut) = StreamLen
  /\ StreamLen > 1

\* C29: when a stage has pushed an exception to the error queue, sink_fold
\* ends by raising that exception, the first one pushed, and never by
\* returning the accumulated value, even with values left unread.
C29_FailsWithException ==
  (skPc = "done" /\ stRaised # <<>>) => skRes = [kind |-> "raised", v |-> stRaised[1]]

\* sink_fold raised the exception of a stage function after it had folded a
\* value
C29_Witness ==
  /\ skPc = "done"
  /\ skRes.kind = "raised"
  /\ skRes.v # QueueClosedExc
  /\ skAcc > 0

\* the values of side s among those sent to out, in the order they were sent
SentOf(s) == SelectSeq(mgOut \o mgOutQ, LAMBDA v : SideOf(v) = s)

\* C30: merge sends to out the values of both sides, each once and those of
\* a side in their order, and closes out only once both upstream queues are
\* closed and drained and every value has been forwarded.
C30_MergeIsUnion ==
  /\ \A s \in MgSides :
       /\ Len(SentOf(s)) <= mgFed[s]
       /\ \A i \in 1..Len(SentOf(s)) : SentOf(s)[i] = MgItem(s, i)
  /\ mgOutClosed =>
       \A s \in MgSides : /\ mgQClosed[s] /\ mgQ[s] = <<>> /\ pmPc[s] = "done"
                        /\ Len(SentOf(s)) = StreamLen
  /\ mgColPc = "done" => Len(mgOut) = 2 * StreamLen

\* the consumer has got all the values, one of side 2 before one of side 1
C30_Witness ==
  /\ mgColPc = "done"
  /\ Len(mgOut) = 2 * StreamLen
  /\ SideOf(mgOut[1]) = 2
  /\ SideOf(mgOut[2]) = 1


(***************************************************************************)
(* C34: in a Queue created with capacity c >= 1 the buffer never holds     *)
(* more than c items, and every producer has at most c completed sends     *)
(* whose item no receive has returned yet: its i-th send completes only    *)
(* after i - c of its items have been received.                            *)
(***************************************************************************)
C34_BoundedBuffer ==
  qMaxsize >= 1 =>
    /\ Len(qBuf) <= qMaxsize
    /\ \A p \in Producers : pSent[p] <= qMaxsize + Len(qGot[p])

\* a send beyond the capacity has completed after a receive, the buffer is
\* full again and another send is parked on it
C34_Witness ==
  /\ qMaxsize >= 1
  /\ Len(qBuf) = qMaxsize
  /\ \E p \in Producers : pSent[p] > qMaxsize /\ Len(qGot[p]) >= 1
  /\ \E p \in Producers : pPc[p] = "waiting"

(***************************************************************************)
(* C37: once Queue.close() has completed the buffer never grows.           *)
(* Refuted: a send parked in Condition.wait() (line 36) when close() ran   *)
(* goes on to line 37 without testing _closed again.                       *)
(***************************************************************************)
C37_ClosedBufferStep == qClosed => Len(qBuf') <= Len(qBuf)

C37_ClosedBufferNeverGrows == [][C37_ClosedBufferStep]_vars

(***************************************************************************)
(* C38: close() makes every send and every receive that was parked when it *)
(* ran terminate with no further operation of another task; so no task is  *)
(* parked in Condition.wait() of a closed queue once it has run after the  *)
(* notify_all() of close().                                                *)
(* Refuted: a send woken by close() finds the buffer still full (line 35)  *)
(* and parks again; only a receive can wake it.                            *)
(***************************************************************************)
C38_NoneParkedOnClosedQueue ==
  qClosed => /\ \A p \in Producers : pPc[p] # "waiting"
             /\ \A c \in Consumers : cPc[c] # "waiting"


(***************************************************************************)
(* C32: in A + B the acquire of B starts only when the acquire of A has    *)
(* returned, and the Context of the build is that of A with the service of *)
(* B added; the teardown starts the release of A only when the release of  *)
(* B has returned; and when the acquire of B fails, the release of A has   *)
(* run to its end when the build raises.                                   *)
(***************************************************************************)
C32_SequentialComposition ==
  lyOp = "+" =>
    /\ lySt[2] # "none" => lySt[1] = "ok"
    /\ lyPhase = "built" =>
         /\ lyCtx[lyT[2]] = lyInst[2]
         /\ lyT[1] # lyT[2] => lyCtx[lyT[1]] = lyInst[1]
    /\ (lyPhase \in {"teardown", "done", "tdfailed"} /\ lyRel[1] # "none") => lyRel[2] = "ok"
    /\ (lyPhase = "failed" /\ lySt[2] = "err") =>
         /\ lyRel[1] \in {"ok", "err"}
         /\ lyClose[lyInst[1]] = 1

\* the acquire of B failed, close ran on the instance of A and the build raised
C32_Witness ==
  /\ lyOp = "+"
  /\ lyPhase = "failed"
  /\ lySt[1] = "ok" /\ lySt[2] = "err"
  /\ lyRel[1] = "ok"
  /\ lyClose[lyInst[1]] = 1

(***************************************************************************)
(* C33: in A | B, when the acquire of exactly one side fails, close has    *)
(* run exactly once on the instance of the other side and that release has *)
(* ended when the build raises, and the build raises the error of the side *)
(* that failed.                                                            *)
(***************************************************************************)
C33_ParallelOneSideFails ==
  (lyOp = "|" /\ lyPhase = "failed") =>
    \A w \in Sides :
      (lySt[w] = "ok" /\ lySt[3 - w] = "err") =>
        /\ lyRel[w] \in {"ok", "err"}
        /\ lyClose[lyInst[w]] = 1
        /\ lyErr = [kind |-> "mk", side |-> 3 - w]

\* the left side failed, the right side was acquired and released, and the
\* build raised
C33_Witness ==
  /\ lyOp = "|"
  /\ lyPhase = "failed"
  /\ lySt[1] = "err" /\ lySt[2] = "ok"
  /\ lyRel[2] \in {"ok", "err"}
  /\ lyClose[lyInst[2]] = 1

(***************************************************************************)
(* C40: when the teardown of A + B has ended and the release of B raised,  *)
(* the release of A has run.                                               *)
(* Refuted: line 108 awaits the release of B and then the release of A in  *)
(* one statement list with no try, so what the release of B raises leaves  *)
(* rel before the release of A is called.                                  *)
(***************************************************************************)
C40_ReleaseOfARunsAnyway ==
  (lyOp = "+" /\ lyPhase \in {"done", "tdfailed"} /\ lyRel[2] = "err") => lyRel[1] # "none"


(***************************************************************************)
(* C36: acq and rel are uninterruptible: a cancel() delivered while acq or *)
(* rel is parked does not make it end with CancelledError, so neither acq  *)
(* nor rel ever ends with an interrupt.                                    *)
(* Refuted: run (lines 633-647) awaits acq and rel in the task itself      *)
(* with no uninterruptible around them; CancelledError is raised at the    *)
(* await inside acq (then rel never runs) or inside rel.                   *)
(***************************************************************************)
C36_AcquireReleaseUninterruptible ==
  /\ arAcqExit # Interrupt
  /\ arRelExit # Interrupt


(***************************************************************************)
(* C39: every evaluation of one effect value e.retry(Schedule.recurs(n))   *)
(* has the whole budget of the schedule: when e fails on the first k       *)
(* evaluations of a task and succeeds afterwards, that task evaluates e    *)
(* min(k+1, n+1) times and ends with the value when k <= n, whatever       *)
(* another task evaluating the same effect value does.                     *)
(* Refuted: the Schedule object is captured by the effect value, so the    *)
(* tasks step and reset one _state (lines 442 and 447).                    *)
(***************************************************************************)
C39_EachEvaluationHasFullBudget ==
  \A t \in rcActive :
    (rcComb = "retry" /\ rcLast[t].kind = "success") =>
       /\ rcAttempts[t] <= Min(rcK[t] + 1, rcN + 1)
       /\ rcPc[t] = "done" =>
            /\ rcAttempts[t] = Min(rcK[t] + 1, rcN + 1)
            /\ rcExit[t] = IF rcK[t] <= rcN THEN rcLast[t] ELSE Fail(rcN + 1)


(***************************************************************************)
(* C35: a receive on a channel that is closed and empty ends with a closed *)
(* error; so when the channel is closed and empty and no send is left      *)
(* inside put(), no receive is parked in get().                            *)
(* Refuted: receive (line 63) is 'return await self._q.get()'; it never    *)
(* reads _closed, and close (line 51) wakes nobody.                        *)
(***************************************************************************)
C35_ReceiveOnClosedEmptyEnds ==
  (/\ chClosed
   /\ chBuf = <<>>
   /\ \A p \in Producers : chS[p] \notin {"waiting", "woken"}) =>
     \A c \in Consumers : chR[c] # "waiting"


(***************************************************************************)
(* C31: in via_acquire_release with w workers whose acquire succeeds, when *)
(* the run of the stream with a sink has ended every worker has run        *)
(* acquire exactly once and release exactly once.                          *)
(* Refuted: StreamE.run (line 394) ends when the sink ends, and the sink   *)
(* ends on the first exception in err; a worker still inside func or       *)
(* acquire then has not started release.                                   *)
(***************************************************************************)
C31_ReleasedWhenRunEnds ==
  (vaSink # "run" /\ vaNoRsrc = {}) =>
     \A k \in 1..vaW : vaAcq[k] = 1 /\ vaRel[k] = 1

=============================================================================
